---- MODULE Spec2Model ----
(***************************************************************************)
(* Roster-performance tracking: the stored performance entries and player  *)
(* positions, the get-performance-benchmarks and get-player-neighborhood   *)
(* edge functions, the get_best_daily_entries SQL function, the normalizer *)
(* of performanceUtils.ts, the usePerformanceComparison hook, and the      *)
(* accounts: the create-user, delete-user and reset-user-password edge     *)
(* functions and the role and position update of the Users page.           *)
(*                                                                         *)
(* Values are whole numbers among the stored DECIMAL(10,2); the quotients  *)
(* and products the code takes of them are IEEE 754 doubles, and           *)
(* Math.round is round-half-up.  Row ids, units and timestamps take part   *)
(* in no computation of these functions and are left out of a row.         *)
(***************************************************************************)
EXTENDS Integers, Sequences, FiniteSets, Bags, TLC

(***************************************************************************)
(* Bounds of the model.                                                    *)
(***************************************************************************)
MaxEntries == 3
MaxRoster == 41
MaxValue == 8
MaxFetches == 2
Players == {"p1", "p2", "p3"}
Staff == {"coach1"}
Users == Players \cup Staff
Dates == {1, 2}
Values == {4, 5, 7}

(***************************************************************************)
(* Enumerations of the program.                                            *)
(***************************************************************************)
MetricType ==
  {"vertical_jump", "jump_gather", "30yd_dash", "3_cone_drill",
   "shuttle_5_10_5", "pushups_1min"}

LOWER_IS_BETTER == {"30yd_dash", "3_cone_drill", "shuttle_5_10_5"}

FootballPosition == {"QB", "WR", "C", "DB", "B", "unassigned"}

ComparisonMode == {"best", "position", "offense", "defense"}

NoPosition == "none"
NoUser == "null"
NoValue == "null"

(* null in a field that holds a number: no stored value or score is negative. *)
NoNumber == 0 - 1
NoResponse == [fn |-> "none"]

Entry ==
  [player_id : Players, metric_type : MetricType, entry_date : Dates, value : Values]

VARIABLES performance_entries, player_positions, user_roles, auth_users, profiles,
          request, response

vars ==
  <<performance_entries, player_positions, user_roles, auth_users, profiles,
    request, response>>

Init ==
  /\ performance_entries = EmptyBag
  /\ player_positions = [p \in Players |-> NoPosition]
  /\ user_roles = [u \in Users |-> IF u \in Staff THEN {"coach"} ELSE {"player"}]
  /\ auth_users = [u \in Users |-> "initial"]
  /\ profiles = Users
  /\ request = [fn |-> "none"]
  /\ response = NoResponse

(***************************************************************************)
(* performanceEntrySchema: the entry form accepts a metric of the          *)
(* enumeration and a positive value of at most 1000.                       *)
(***************************************************************************)
performanceEntrySchema(e) ==
  /\ e.metric_type \in MetricType
  /\ e.value > 0
  /\ e.value <= 1000

(***************************************************************************)
(* handleAddEntry: validate, then insert one row.                          *)
(***************************************************************************)
handleAddEntry(e) ==
  /\ response = NoResponse
  /\ BagCardinality(performance_entries) < MaxEntries
  /\ performanceEntrySchema(e)
  /\ performance_entries' = performance_entries (+) SetToBag({e})
  /\ UNCHANGED <<player_positions, user_roles, auth_users, profiles, request, response>>

(***************************************************************************)
(* The served request and its response are observed one at a time: the     *)
(* caller takes the response, and the next operation starts.               *)
(***************************************************************************)
ResponseTaken ==
  /\ response # NoResponse
  /\ request' = [fn |-> "none"]
  /\ response' = NoResponse
  /\ UNCHANGED <<performance_entries, player_positions, user_roles, auth_users, profiles>>


(***************************************************************************)
(* handleUpdateUser, the position part: the player's position row is       *)
(* deleted, and a row is inserted unless the chosen position is            *)
(* 'unassigned'.  player_positions holds at most one row per player        *)
(* (UNIQUE (player_id)).                                                   *)
(***************************************************************************)
handleUpdateUser(p, primaryPosition) ==
  /\ response = NoResponse
  /\ "player" \in user_roles[p]
  /\ player_positions' =
       [player_positions EXCEPT
          ![p] = IF primaryPosition # "unassigned" THEN primaryPosition ELSE NoPosition]
  /\ player_positions' # player_positions
  /\ UNCHANGED <<performance_entries, user_roles, auth_users, profiles, request, response>>

(***************************************************************************)
(* Sequences, and a JavaScript Map as the sequence of its entries in       *)
(* insertion order (set() on a key that is present keeps its place).       *)
(***************************************************************************)
Range(s) == {s[i] : i \in DOMAIN s}

Includes(s, x) == \E i \in DOMAIN s : s[i] = x

MapHas(m, k) == \E i \in DOMAIN m : m[i].key = k

MapGet(m, k) == m[CHOOSE i \in DOMAIN m : m[i].key = k].val

(* A Map that iterates from its newest key to its oldest.                  *)
newestFirst(m, k, v) ==
  IF MapHas(m, k)
    THEN [i \in DOMAIN m |-> IF m[i].key = k THEN [key |-> k, val |-> v] ELSE m[i]]
    ELSE <<[key |-> k, val |-> v]>> \o m

MapSet(m, k, v) ==
  IF MapHas(m, k)
    THEN [i \in DOMAIN m |-> IF m[i].key = k THEN [key |-> k, val |-> v] ELSE m[i]]
    ELSE Append(m, [key |-> k, val |-> v])

MapValues(m) == [i \in DOMAIN m |-> m[i].val]

Min(S) == CHOOSE x \in S : \A y \in S : x <= y

Max(S) == CHOOSE x \in S : \A y \in S : x >= y

(***************************************************************************)
(* A query's result: the rows of the table in one of the orders the        *)
(* database may return them in.  Without ORDER BY every order is possible; *)
(* with .order('entry_date', {ascending: false}) the dates do not          *)
(* increase along the result.                                              *)
(***************************************************************************)
TableRows(table) ==
  {s \in [1..BagCardinality(table) -> BagToSet(table)] :
     \A e \in BagToSet(table) :
       Cardinality({i \in DOMAIN s : s[i] = e}) = CopiesIn(e, table)}

OrderedByDateDesc(s) ==
  \A i, j \in DOMAIN s : i < j => s[i].entry_date >= s[j].entry_date

(***************************************************************************)
(* auth.uid() and has_role as the SQL function sees them.  A client built  *)
(* with the service-role key sends no user's token: auth.uid() is NULL,    *)
(* player_id = NULL is not true and no user_roles row has user_id = NULL.  *)
(***************************************************************************)
has_role(uid, role) == uid \in DOMAIN user_roles /\ role \in user_roles[uid]

uuidOrder == [u \in Users |-> CASE u = "p1" -> 1 [] u = "p2" -> 2 [] u = "p3" -> 3
                                    [] OTHER -> 4]

sqlLowerIsBetter == {"40yd_dash", "shuttle_5_10_5"}

sqlRankKey(e) == IF e.metric_type \in sqlLowerIsBetter THEN e.value ELSE 0 - e.value

(***************************************************************************)
(* get_best_daily_entries(): of the rows the caller may see, the row       *)
(* ranked first in its (player_id, metric_type, entry_date) partition,     *)
(* ordered by entry_date DESC, player_id.  The result is the set of the    *)
(* row sequences the ORDER BY allows.                                      *)
(***************************************************************************)
bestDailyEntries(visible) ==
  LET samePartition(e, f) ==
        /\ e.player_id = f.player_id
        /\ e.metric_type = f.metric_type
        /\ e.entry_date = f.entry_date
      first == {e \in visible :
                  \A f \in visible : samePartition(e, f) => sqlRankKey(e) <= sqlRankKey(f)}
  IN {s \in [1..Cardinality(first) -> first] :
        /\ \A i, j \in DOMAIN s : i # j => s[i] # s[j]
        /\ \A i, j \in DOMAIN s : i < j =>
             \/ s[i].entry_date > s[j].entry_date
             \/ /\ s[i].entry_date = s[j].entry_date
                /\ uuidOrder[s[i].player_id] <= uuidOrder[s[j].player_id]}

(* The function without its WHERE clause, as its first migration wrote it. *)
get_best_daily_entries_of_all(uid) == bestDailyEntries(BagToSet(performance_entries))

get_best_daily_entries(uid) ==
  bestDailyEntries({e \in BagToSet(performance_entries) :
                      \/ e.player_id = uid
                      \/ has_role(uid, "admin")
                      \/ has_role(uid, "coach")})

(***************************************************************************)
(* get-performance-benchmarks.                                             *)
(***************************************************************************)
Absent == "undefined"

(* A schema that accepts every body.                                       *)
anyBody(body) == TRUE

requestSchema(body) ==
  /\ body.mode \in {"best", "position", "offense", "defense"}
  /\ body.position \in {"QB", "WR", "C", "DB", "B", "unassigned"} \cup {Absent}

allMetrics ==
  <<"vertical_jump", "jump_gather", "40yd_dash", "shuttle_5_10_5", "pushups_1min">>

lowerIsBetter == {"40yd_dash", "shuttle_5_10_5"}

(***************************************************************************)
(* bestEntriesMap: one pass over rawData keeping, per                       *)
(* player_id-metric_type-entry_date key, the first row seen unless a later *)
(* row is strictly better; allData is the Map's values.                    *)
(***************************************************************************)
(* Every row of rawData under a key of its own.                            *)
everyRawRow(rawData, i, map) ==
  [k \in DOMAIN rawData |-> [key |-> k, val |-> rawData[k]]]

RECURSIVE bestEntriesFold(_, _, _)
bestEntriesFold(rawData, i, map) ==
  IF i > Len(rawData) THEN map
  ELSE
    LET entry == rawData[i]
        key == <<entry.player_id, entry.metric_type, entry.entry_date>>
    IN IF ~MapHas(map, key)
         THEN bestEntriesFold(rawData, i + 1, MapSet(map, key, entry))
         ELSE
           LET existing == MapGet(map, key)
               isLowerBetter == entry.metric_type \in lowerIsBetter
               shouldReplace == IF isLowerBetter
                                  THEN entry.value < existing.value
                                  ELSE entry.value > existing.value
           IN bestEntriesFold(rawData, i + 1,
                              IF shouldReplace THEN MapSet(map, key, entry) ELSE map)

bestEntriesMap(rawData) == MapValues(bestEntriesFold(rawData, 1, <<>>))

(***************************************************************************)
(* playerIds: the players of the requested position or unit; empty for     *)
(* every other request.                                                    *)
(***************************************************************************)
offensePositions == {"QB", "WR", "C"}

defensePositions == {"DB", "B"}

playerIds(mode, position) ==
  IF mode = "position" /\ position # Absent
    THEN {p \in Players : player_positions[p] = position}
  ELSE IF mode = "offense" \/ mode = "defense"
    THEN LET positions == IF mode = "offense" THEN offensePositions ELSE defensePositions
         IN {p \in Players : player_positions[p] \in positions}
  ELSE {}

(***************************************************************************)
(* playerLatest: the value of the first row seen for each player.          *)
(***************************************************************************)
(* The value of the last row seen for each player.                         *)
RECURSIVE playerLast(_, _, _)
playerLast(filteredEntries, i, map) ==
  IF i > Len(filteredEntries) THEN map
  ELSE playerLast(filteredEntries, i + 1,
                  MapSet(map, filteredEntries[i].player_id, filteredEntries[i].value))

RECURSIVE playerLatest(_, _, _)
playerLatest(filteredEntries, i, map) ==
  IF i > Len(filteredEntries) THEN map
  ELSE LET entry == filteredEntries[i]
       IN playerLatest(filteredEntries, i + 1,
                       IF ~MapHas(map, entry.player_id)
                         THEN MapSet(map, entry.player_id, entry.value)
                         ELSE map)

filteredEntries(entries, metric, ids) ==
  LET byMetric == SelectSeq(entries, LAMBDA e : e.metric_type = metric)
  IN IF Cardinality(ids) > 0
       THEN SelectSeq(byMetric, LAMBDA e : e.player_id \in ids)
       ELSE byMetric

(***************************************************************************)
(* The per-metric loop: a metric with no row left after filtering adds     *)
(* nothing to the result.                                                  *)
(***************************************************************************)
RECURSIVE benchmarks(_, _, _, _)
benchmarks(entries, ids, k, result) ==
  IF k > Len(allMetrics) THEN result
  ELSE
    LET metric == allMetrics[k]
        isLowerBetter == metric \in lowerIsBetter
        filtered == filteredEntries(entries, metric, ids)
    IN IF Len(filtered) > 0
         THEN LET values == Range(MapValues(playerLatest(filtered, 1, <<>>)))
                  bestValue == IF isLowerBetter THEN Min(values) ELSE Max(values)
              IN benchmarks(entries, ids, k + 1,
                            Append(result, [metric_type |-> metric, value |-> bestValue]))
         ELSE benchmarks(entries, ids, k + 1, result)

(***************************************************************************)
(* The handler.  Both reads go through the service-role client: the table  *)
(* read bypasses row-level security, the RPC runs with auth.uid() NULL.    *)
(* Each loop iteration repeats the RPC; an iteration reads only the rows   *)
(* of its metric, whose order the ORDER BY fixes.                          *)
(***************************************************************************)
benchmarksResponse(caller, body, rawData, entries) ==
  IF caller = NoUser
    THEN [fn |-> "get-performance-benchmarks", status |-> 401]
  ELSE IF ~requestSchema(body)
    THEN [fn |-> "get-performance-benchmarks", status |-> 400]
  ELSE [fn |-> "get-performance-benchmarks", status |-> 200,
        benchmarks |-> benchmarks(entries, playerIds(body.mode, body.position), 1, <<>>),
        allData |-> bestEntriesMap(rawData)]

getPerformanceBenchmarks(caller, body) ==
  /\ response = NoResponse
  /\ \E rawData \in {s \in TableRows(performance_entries) : OrderedByDateDesc(s)} :
       \E entries \in get_best_daily_entries(NoUser) :
         response' = benchmarksResponse(caller, body, rawData, entries)
  /\ request' = [fn |-> "get-performance-benchmarks", caller |-> caller, body |-> body]
  /\ UNCHANGED <<performance_entries, player_positions, user_roles, auth_users, profiles>>

(***************************************************************************)
(* JavaScript numbers.  A positive double is [hi, mid, lo, e]: its 53-bit  *)
(* significand is hi * 2^35 + mid * 2^17 + lo (hi of 18 bits with its top  *)
(* bit set, mid of 18 bits, lo of 17 bits), e is the exponent of the top   *)
(* bit, and its value is significand * 2^(e-52).  Division and             *)
(* multiplication round to nearest, ties to even, as IEEE 754 binary64.    *)
(***************************************************************************)
RECURSIVE powerOfTwo(_)
powerOfTwo(n) == IF n = 0 THEN 1 ELSE 2 * powerOfTwo(n - 1)

powersOfTwo == [n \in 0..30 |-> powerOfTwo(n)]

Pow2(n) == powersOfTwo[n]

RECURSIVE bitLength(_)
bitLength(n) == IF n = 0 THEN 0 ELSE 1 + bitLength(n \div 2)

fzero == [hi |-> 0, mid |-> 0, lo |-> 0, e |-> 0]

(* Natural numbers of up to 56 bits, as [hi, mid, lo] with the same limbs. *)
sig(x) == [hi |-> x.hi, mid |-> x.mid, lo |-> x.lo]

bigZero == [hi |-> 0, mid |-> 0, lo |-> 0]

bigOdd(r) == (r.lo % 2) = 1

bigTwice(r) ==
  LET lo2 == 2 * r.lo
      mid2 == (2 * r.mid) + (lo2 \div Pow2(17))
  IN [hi |-> (2 * r.hi) + (mid2 \div Pow2(18)), mid |-> mid2 % Pow2(18),
      lo |-> lo2 % Pow2(17)]

bigHalf(r) ==
  [hi |-> r.hi \div 2, mid |-> (r.mid \div 2) + ((r.hi % 2) * Pow2(17)),
   lo |-> (r.lo \div 2) + ((r.mid % 2) * Pow2(16))]

bigLess(a, b) ==
  \/ a.hi < b.hi
  \/ a.hi = b.hi /\ a.mid < b.mid
  \/ a.hi = b.hi /\ a.mid = b.mid /\ a.lo < b.lo

(* a - b for a >= b.                                                       *)
bigSub(a, b) ==
  LET l == a.lo - b.lo
      bl == IF l < 0 THEN 1 ELSE 0
      m == a.mid - b.mid - bl
      bm == IF m < 0 THEN 1 ELSE 0
  IN [hi |-> a.hi - b.hi - bm, mid |-> m + (bm * Pow2(18)), lo |-> l + (bl * Pow2(17))]

bigLength(r) ==
  IF r.hi > 0 THEN 35 + bitLength(r.hi)
  ELSE IF r.mid > 0 THEN 17 + bitLength(r.mid)
  ELSE bitLength(r.lo)

(* Shifts, at most 12 bits at a time so that no limb leaves 31 bits.      *)
RECURSIVE shiftLeft(_, _)
shiftLeft(r, d) ==
  IF d > 12 THEN shiftLeft(shiftLeft(r, 12), d - 12)
  ELSE LET lo2 == r.lo * Pow2(d)
           mid2 == (r.mid * Pow2(d)) + (lo2 \div Pow2(17))
       IN [hi |-> (r.hi * Pow2(d)) + (mid2 \div Pow2(18)), mid |-> mid2 % Pow2(18),
           lo |-> lo2 % Pow2(17)]

(* r shifted right by d bits; sticky records a non-zero bit shifted out.   *)
RECURSIVE shiftRight(_, _, _)
shiftRight(r, d, sticky) ==
  IF r = bigZero THEN [sig |-> bigZero, sticky |-> sticky]
  ELSE IF d > 12
    THEN LET s == shiftRight(r, 12, sticky) IN shiftRight(s.sig, d - 12, s.sticky)
  ELSE [sig |-> [hi |-> r.hi \div Pow2(d),
                 mid |-> (r.mid \div Pow2(d)) + ((r.hi % Pow2(d)) * Pow2(18 - d)),
                 lo |-> (r.lo \div Pow2(d)) + ((r.mid % Pow2(d)) * Pow2(17 - d))],
        sticky |-> sticky \/ (r.lo % Pow2(d)) # 0]

(* The significand one unit in the last place up.                          *)
nextUp(x) ==
  IF x.lo + 1 < Pow2(17) THEN [x EXCEPT !.lo = x.lo + 1]
  ELSE IF x.mid + 1 < Pow2(18) THEN [x EXCEPT !.lo = 0, !.mid = x.mid + 1]
  ELSE IF x.hi + 1 < Pow2(18) THEN [x EXCEPT !.lo = 0, !.mid = 0, !.hi = x.hi + 1]
  ELSE [hi |-> Pow2(17), mid |-> 0, lo |-> 0, e |-> x.e + 1]

roundToEven(x, guard, sticky) ==
  IF guard = 1 /\ (sticky \/ (x.lo % 2) = 1) THEN nextUp(x) ELSE x

(* The element of a singleton. In {f(a) : a \in {x}} the expression x is   *)
(* evaluated once and a is its value, as a local constant of the code is.  *)
theValue(S) == CHOOSE v \in S : TRUE

(* The double nearest to (r + fraction) * 2^(e - bigLength(r) + 1), r > 0, *)
(* where the fraction is non-zero iff sticky.                              *)
withExponent(m, e) == [hi |-> m.hi, mid |-> m.mid, lo |-> m.lo, e |-> e]

makeDouble(r, sticky, e) ==
  theValue({IF L <= 53 THEN withExponent(shiftLeft(r, 53 - L), e)
            ELSE theValue({roundToEven(withExponent(bigHalf(d.sig), e),
                                       IF bigOdd(d.sig) THEN 1 ELSE 0, d.sticky) :
                           d \in {shiftRight(r, L - 54, sticky)}}) :
            L \in {bigLength(r)}})

(* The double of an integer 0 <= n < 2^17.                                 *)
fromInt(n) ==
  IF n = 0 THEN fzero
  ELSE makeDouble([hi |-> 0, mid |-> 0, lo |-> n], FALSE, bitLength(n) - 1)

fless(x, y) ==
  IF x = fzero THEN y # fzero
  ELSE IF y = fzero THEN FALSE
  ELSE x.e < y.e \/ (x.e = y.e /\ bigLess(sig(x), sig(y)))

(* x - y for doubles x >= y >= 0: the exact difference with two extra      *)
(* bits and a sticky bit, rounded. d0 is the difference before the sticky  *)
(* bit borrows from it.                                                    *)
roundedDifference(d0, sticky, e) ==
  theValue({IF d = bigZero /\ ~sticky THEN fzero
            ELSE makeDouble(d, sticky, e + bigLength(d) - 55) :
            d \in {IF sticky THEN bigSub(d0, [hi |-> 0, mid |-> 0, lo |-> 1]) ELSE d0}})

difference(x, y) ==
  IF y = fzero THEN x
  ELSE theValue({roundedDifference(bigSub(shiftLeft(sig(x), 2), s.sig), s.sticky, x.e) :
                 s \in {shiftRight(shiftLeft(sig(y), 2), x.e - y.e, FALSE)}})

fsub(x, y) == theValue({difference(a, b) : a \in {x}, b \in {y}})

(* n <= 18 further quotient bits of a long division by den: q the bits so *)
(* far, r < den the remainder.                                             *)
RECURSIVE quotientBits(_, _, _, _)
quotientBits(r, den, n, q) ==
  IF n = 0 THEN [q |-> q, r |-> r]
  ELSE theValue({IF bigLess(r2, den)
                   THEN quotientBits(r2, den, n - 1, 2 * q0)
                   ELSE quotientBits(bigSub(r2, den), den, n - 1, (2 * q0) + 1) :
                 r2 \in {bigTwice(r)}, q0 \in {q}})

(* The quotient of the significands num < 2 * den as three limbs of 18     *)
(* bits, the first of them the n bits after the leading bits q, rounded to *)
(* 53 bits.                                                                *)
quotientLimbs(num, den, n, q, e) ==
  theValue({theValue({theValue({roundToEven([hi |-> q1.q, mid |-> q2.q, lo |-> q3.q \div 2,
                                             e |-> e],
                                            q3.q % 2, q3.r # bigZero) :
                                q3 \in {quotientBits(q2.r, den, 18, 0)}}) :
                      q2 \in {quotientBits(q1.r, den, 18, 0)}}) :
            q1 \in {quotientBits(num, den, n, q)}})

(* x / y for doubles x >= 0, y > 0.                                        *)
quotient(x, y) ==
  IF x = fzero THEN fzero
  ELSE IF bigLess(sig(x), sig(y))
    THEN quotientLimbs(sig(x), sig(y), 18, 0, x.e - y.e - 1)
    ELSE quotientLimbs(bigSub(sig(x), sig(y)), sig(y), 17, 1, x.e - y.e)

fdiv(x, y) == theValue({quotient(a, b) : a \in {x}, b \in {y}})

(* x * k for a double x and an integer k > 0: the exact product, of        *)
(* 53 + s bits, rounded back to 53.                                        *)
product(x, k) ==
  IF x = fzero THEN fzero
  ELSE LET c0 == x.lo * k
           lowC == c0 % Pow2(17)
           b0 == (x.mid * k) + (c0 \div Pow2(17))
           lowB == b0 % Pow2(18)
           a0 == (x.hi * k) + (b0 \div Pow2(18))
           s == bitLength(a0) - 18
           ra == a0 % Pow2(s)
           rb == lowB % Pow2(s)
           c1 == (rb * Pow2(17)) + lowC
           dropped == c1 % Pow2(s)
       IN IF s = 0 THEN [hi |-> a0, mid |-> lowB, lo |-> lowC, e |-> x.e]
          ELSE roundToEven([hi |-> a0 \div Pow2(s),
                            mid |-> (ra * Pow2(18 - s)) + (lowB \div Pow2(s)),
                            lo |-> c1 \div Pow2(s),
                            e |-> x.e + s],
                           dropped \div Pow2(s - 1), (dropped % Pow2(s - 1)) > 0)

fmul(x, k) == theValue({product(a, k) : a \in {x}})

(* Math.round of a double 0 <= x < 2^17: the nearest integer, a half       *)
(* rounding up.                                                            *)
nearestInteger(x) ==
  IF x = fzero \/ x.e < 0 - 1 THEN 0
  ELSE IF x.e = 0 - 1 THEN 1
  ELSE (x.hi \div Pow2(17 - x.e)) + ((x.hi \div Pow2(16 - x.e)) % 2)

MathRound(x) == theValue({nearestInteger(a) : a \in {x}})

(***************************************************************************)
(* get-player-neighborhood.                                                *)
(***************************************************************************)
timeBasedMetrics == {"shuttle_5_10_5", "30yd_dash", "3_cone_drill"}

metricNames ==
  <<"shuttle_5_10_5", "vertical_jump", "jump_gather", "pushups_1min", "30yd_dash",
    "3_cone_drill">>

(***************************************************************************)
(* latestEntries: per player_id-metric_type key the row of the most recent *)
(* date, and of the rows of that date the first seen unless a later one is *)
(* strictly better.                                                        *)
(***************************************************************************)
RECURSIVE latestEntriesFold(_, _, _)
latestEntriesFold(allEntries, i, map) ==
  IF i > Len(allEntries) THEN map
  ELSE
    LET entry == allEntries[i]
        key == <<entry.player_id, entry.metric_type>>
    IN IF ~MapHas(map, key)
         THEN latestEntriesFold(allEntries, i + 1, MapSet(map, key, entry))
         ELSE
           LET existing == MapGet(map, key)
               isTimeBased == entry.metric_type \in timeBasedMetrics
               isBetter == IF isTimeBased
                             THEN entry.value < existing.value
                             ELSE entry.value > existing.value
               replace == \/ entry.entry_date > existing.entry_date
                          \/ entry.entry_date = existing.entry_date /\ isBetter
           IN latestEntriesFold(allEntries, i + 1,
                                IF replace THEN MapSet(map, key, entry) ELSE map)

latestEntries(allEntries) == MapValues(latestEntriesFold(allEntries, 1, <<>>))

(***************************************************************************)
(* sortedEntries: Array.prototype.sort is stable; better values first.     *)
(***************************************************************************)
compareEntries(a, b, isTimeBased) ==
  IF isTimeBased THEN a.value - b.value ELSE b.value - a.value

RECURSIVE insertSorted(_, _, _)
insertSorted(sorted, x, isTimeBased) ==
  IF Len(sorted) = 0 THEN <<x>>
  ELSE IF compareEntries(x, sorted[Len(sorted)], isTimeBased) < 0
    THEN Append(insertSorted(SubSeq(sorted, 1, Len(sorted) - 1), x, isTimeBased),
                sorted[Len(sorted)])
    ELSE Append(sorted, x)

RECURSIVE sortedEntries(_, _)
sortedEntries(metricEntries, isTimeBased) ==
  IF Len(metricEntries) = 0 THEN <<>>
  ELSE insertSorted(
         sortedEntries(SubSeq(metricEntries, 1, Len(metricEntries) - 1), isTimeBased),
         metricEntries[Len(metricEntries)], isTimeBased)

findIndex(s, player_id) ==
  IF \E i \in DOMAIN s : s[i].player_id = player_id
    THEN Min({i \in DOMAIN s : s[i].player_id = player_id})
    ELSE 0

(***************************************************************************)
(* nextBestValue: from the row above the player upwards, the first value   *)
(* that is strictly better; null when there is none.                       *)
(***************************************************************************)
(* The row just above the player, whatever its value.                      *)
nextBestValueOfRowAbove(sorted, i, currentValue, isTimeBased) ==
  IF i < 1 THEN NoNumber ELSE sorted[i].value

RECURSIVE nextBestValue(_, _, _, _)
nextBestValue(sorted, i, currentValue, isTimeBased) ==
  IF i < 1 THEN NoNumber
  ELSE LET candidate == sorted[i]
           isBetter == IF isTimeBased
                         THEN candidate.value < currentValue
                         ELSE candidate.value > currentValue
       IN IF isBetter THEN candidate.value
          ELSE nextBestValue(sorted, i - 1, currentValue, isTimeBased)

(* The share of the other players who are not strictly worse.              *)
percentileOfNotWorse(playersStrictlyWorseCount, totalPlayers) ==
  IF totalPlayers > 1
    THEN (((totalPlayers - 1) - playersStrictlyWorseCount) * 100) \div (totalPlayers - 1)
    ELSE 100

(***************************************************************************)
(* percentile = Math.round((playersStrictlyWorseCount / (totalPlayers - 1))*)
(* * 100), or 100 for a single player.                                     *)
(***************************************************************************)
percentileOf(playersStrictlyWorseCount, totalPlayers) ==
  IF totalPlayers > 1
    THEN MathRound(fmul(fdiv(fromInt(playersStrictlyWorseCount), fromInt(totalPlayers - 1)),
                        100))
    ELSE 100

(* The percentiles of every roster of the model, computed once.            *)
percentiles ==
  [totalPlayers \in 1..MaxRoster |->
     [playersStrictlyWorseCount \in 0..(totalPlayers - 1) |->
        percentileOf(playersStrictlyWorseCount, totalPlayers)]]

percentile(playersStrictlyWorseCount, totalPlayers) ==
  percentiles[totalPlayers][playersStrictlyWorseCount]

(* A record with zero for every number that is missing.                    *)
zeroNeighborhood(latest, metricKey, player_id) ==
  [metric_type |-> metricKey, current_value |-> 0, next_best_player |-> NoValue,
   next_best_value |-> 0, percentile |-> 0]

metricNeighborhood(latest, metricKey, player_id) ==
  LET isTimeBased == metricKey \in timeBasedMetrics
      metricEntries == SelectSeq(latest, LAMBDA e : e.metric_type = metricKey)
      hasEntry == \E i \in DOMAIN metricEntries : metricEntries[i].player_id = player_id
  IN IF ~hasEntry
       THEN [metric_type |-> metricKey, current_value |-> NoNumber,
             next_best_player |-> NoValue, next_best_value |-> NoNumber,
             percentile |-> NoNumber]
       ELSE
         LET currentValue == metricEntries[findIndex(metricEntries, player_id)].value
             sorted == sortedEntries(metricEntries, isTimeBased)
             currentRank == findIndex(sorted, player_id)
             totalPlayers == Len(sorted)
             playersStrictlyWorseCount ==
               Cardinality({i \in DOMAIN sorted :
                              /\ sorted[i].player_id # player_id
                              /\ IF isTimeBased
                                   THEN sorted[i].value > currentValue
                                   ELSE sorted[i].value < currentValue})
         IN [metric_type |-> metricKey, current_value |-> currentValue,
             next_best_player |-> NoValue,
             next_best_value |->
               nextBestValue(sorted, currentRank - 1, currentValue, isTimeBased),
             percentile |-> percentile(playersStrictlyWorseCount, totalPlayers)]

neighborhoodResponse(caller, player_id, allEntries) ==
  IF caller = NoUser \/ player_id = Absent
    THEN [fn |-> "get-player-neighborhood", status |-> 400]
  ELSE IF ~\E i \in DOMAIN allEntries : allEntries[i].player_id = player_id
    THEN [fn |-> "get-player-neighborhood", status |-> 200, results |-> <<>>]
  ELSE [fn |-> "get-player-neighborhood", status |-> 200,
        results |-> [k \in DOMAIN metricNames |->
                       metricNeighborhood(latestEntries(allEntries), metricNames[k],
                                          player_id)]]

getPlayerNeighborhood(caller, player_id) ==
  /\ response = NoResponse
  /\ \E allEntries \in TableRows(performance_entries) :
       response' = neighborhoodResponse(caller, player_id, allEntries)
  /\ request' = [fn |-> "get-player-neighborhood", caller |-> caller,
                 player_id |-> player_id]
  /\ UNCHANGED <<performance_entries, player_positions, user_roles, auth_users, profiles>>

(***************************************************************************)
(* PerformanceNeighborhood: the metrics shown, and the Team Leader badge.  *)
(***************************************************************************)
metricsWithData(data) == SelectSeq(data, LAMBDA m : m.current_value # NoNumber)

teamLeaderBadge(metric) ==
  metric.next_best_player = NoValue /\ metric.percentile = 100

(***************************************************************************)
(* performanceUtils.ts: normalizeMetrics.                                  *)
(***************************************************************************)
METRIC_LABELS ==
  [m \in MetricType |->
     CASE m = "vertical_jump" -> "Vertical Jump"
       [] m = "jump_gather" -> "Jump w. Gather Step"
       [] m = "30yd_dash" -> "30-Yard Dash"
       [] m = "3_cone_drill" -> "3-Cone Drill"
       [] m = "shuttle_5_10_5" -> "5-10-5 Shuttle"
       [] m = "pushups_1min" -> "Push-Ups (1 Min AMRAP)"]

(* bestValues: the minimum (timed metrics) or maximum of allData's values  *)
(* per metric.                                                             *)
RECURSIVE bestValues(_, _, _)
bestValues(allData, i, map) ==
  IF i > Len(allData) THEN map
  ELSE LET item == allData[i]
           isLowerBetter == item.metric_type \in LOWER_IS_BETTER
       IN IF ~MapHas(map, item.metric_type)
            THEN bestValues(allData, i + 1, MapSet(map, item.metric_type, item.value))
          ELSE IF isLowerBetter
            THEN bestValues(allData, i + 1,
                            MapSet(map, item.metric_type,
                                   Min({MapGet(map, item.metric_type), item.value})))
          ELSE bestValues(allData, i + 1,
                          MapSet(map, item.metric_type,
                                 Max({MapGet(map, item.metric_type), item.value})))

(* The literal 1.4: the double nearest to 7/5.                             *)
timedBaselineFactor == fdiv(fromInt(7), fromInt(5))

(* The product as it is, with no Math.min(100, ...).                       *)
unclamped(x, y) == y

fmin(x, y) == theValue({IF fless(b, a) THEN b ELSE a : a \in {x}, b \in {y}})

(* Math.round(Math.max(0, Math.min(100, ((high - low) / range) * 100))).   *)
(* With high < low the quotient is negative, which Math.max lifts to 0.    *)
normalizedIn(high, low, range) ==
  IF range = fzero THEN 100
  ELSE IF fless(high, low) THEN 0
  ELSE MathRound(fmin(fromInt(100), fmul(fdiv(fsub(high, low), range), 100)))

baselineOf(metric_type, bestValue) ==
  IF metric_type \in LOWER_IS_BETTER THEN fmul(timedBaselineFactor, bestValue)
  ELSE fdiv(fromInt(bestValue), fromInt(IF metric_type = "pushups_1min" THEN 5 ELSE 2))

(* Math.round(normalized) of one item: timed metrics run from the baseline *)
(* down to the best value, the others from the baseline up to it.          *)
normalizedOf(metric_type, value, bestValue) ==
  theValue({IF metric_type \in LOWER_IS_BETTER
              THEN normalizedIn(baseline, v, fsub(baseline, best))
              ELSE normalizedIn(v, baseline, fsub(best, baseline)) :
            baseline \in {baselineOf(metric_type, bestValue)},
            v \in {fromInt(value)}, best \in {fromInt(bestValue)}})

(* The scores of every value against every best value of the model,        *)
(* computed once.                                                          *)
normalizedScores ==
  [m \in MetricType |->
     [v \in 1..MaxValue |-> [b \in 1..MaxValue |-> normalizedOf(m, v, b)]]]

normalized(metric_type, value, bestValue) == normalizedScores[metric_type][value][bestValue]

normalizeMetrics(data, allData) ==
  LET best == bestValues(allData, 1, <<>>)
  IN [i \in DOMAIN data |->
        IF ~MapHas(best, data[i].metric_type)
          THEN [metric |-> METRIC_LABELS[data[i].metric_type], value |-> 50,
                rawValue |-> data[i].value]
          ELSE [metric |-> METRIC_LABELS[data[i].metric_type],
                value |-> normalized(data[i].metric_type, data[i].value,
                                     MapGet(best, data[i].metric_type)),
                rawValue |-> data[i].value]]

(***************************************************************************)
(* usePerformanceComparison: the benchmark modes of fetchComparisonData.   *)
(* The RPC runs with the viewer's token.  A stored MetricData has no       *)
(* entry_date, so `currentDate > existingDate` compares with undefined and *)
(* the first row of a metric (the latest, by the RPC's order) is kept.     *)
(***************************************************************************)
(* Every row of the player, with no grouping by metric.                    *)
everyRowByMetric(playerEntries, i, map) ==
  [k \in DOMAIN playerEntries |->
     [key |-> k, val |-> [metric_type |-> playerEntries[k].metric_type,
                          value |-> playerEntries[k].value]]]

RECURSIVE latestByMetric(_, _, _)
latestByMetric(playerEntries, i, map) ==
  IF i > Len(playerEntries) THEN map
  ELSE LET entry == playerEntries[i]
       IN IF ~MapHas(map, entry.metric_type)
            THEN latestByMetric(playerEntries, i + 1,
                                MapSet(map, entry.metric_type,
                                       [metric_type |-> entry.metric_type,
                                        value |-> entry.value]))
            ELSE latestByMetric(playerEntries, i + 1, map)

fetchLatestPlayerMetrics(bestEntries, playerId) ==
  MapValues(latestByMetric(SelectSeq(bestEntries, LAMBDA e : e.player_id = playerId),
                           1, <<>>))

benchmarkLabel(mode, selectedPosition) ==
  CASE mode = "best" -> "Best Overall"
    [] mode = "position" -> "Best " \o selectedPosition
    [] mode = "offense" -> "Best Offense"
    [] mode = "defense" -> "Best Defense"

(* The result of one fetch.  The function answers 200 with an allData      *)
(* array for every body the hook sends, so `!allData` is never taken.      *)
withSeries(result, label, data, allData) ==
  IF Len(data) > 0 THEN MapSet(result, label, normalizeMetrics(data, allData)) ELSE result

comparisonData(mode, selectedPosition, currentData, benchmarkResponse) ==
  IF benchmarkResponse.status # 200
    THEN [fn |-> "fetchComparisonData", data |-> <<>>,
          error |-> "Failed to load benchmark data. Please try again."]
    ELSE [fn |-> "fetchComparisonData",
          data |-> withSeries(withSeries(<<>>, "You", currentData,
                                         benchmarkResponse.allData),
                              benchmarkLabel(mode, selectedPosition),
                              benchmarkResponse.benchmarks, benchmarkResponse.allData),
          error |-> NoValue]

(* PerformanceRadarChart passes selectedPlayerId || currentUserId; only a  *)
(* coach or admin is offered the player selection.                         *)
fetchComparisonData(viewer, currentUserId, mode, selectedPosition) ==
  /\ response = NoResponse
  /\ currentUserId = viewer \/ has_role(viewer, "coach") \/ has_role(viewer, "admin")
  /\ \E bestEntries \in get_best_daily_entries(viewer) :
       \E rawData \in {s \in TableRows(performance_entries) : OrderedByDateDesc(s)} :
         \E entries \in get_best_daily_entries(NoUser) :
           response' =
             comparisonData(mode, selectedPosition,
                            fetchLatestPlayerMetrics(bestEntries, currentUserId),
                            benchmarksResponse(viewer,
                                               [mode |-> mode,
                                                position |-> IF selectedPosition = NoValue
                                                               THEN Absent
                                                               ELSE selectedPosition],
                                               rawData, entries))
  /\ request' = [fn |-> "fetchComparisonData", viewer |-> viewer,
                 currentUserId |-> currentUserId, mode |-> mode,
                 selectedPosition |-> selectedPosition]
  /\ UNCHANGED <<performance_entries, player_positions, user_roles, auth_users, profiles>>

(***************************************************************************)
(* The three reductions to a player's latest entry per metric, each on the *)
(* rows its call site reads: latestEntries on the table's rows in any      *)
(* order, latestByMetric and playerLatest on the rows of                   *)
(* get_best_daily_entries() for a caller who may see them.                 *)
(***************************************************************************)
latestReductions(allEntries, bestEntries, playerId) ==
  [fn |-> "latest",
   latestEntries |-> latestEntries(allEntries),
   latestByMetric |-> fetchLatestPlayerMetrics(bestEntries, playerId),
   playerLatest |-> [k \in DOMAIN allMetrics |->
                       playerLatest(filteredEntries(bestEntries, allMetrics[k], {}),
                                    1, <<>>)]]

reduceToLatest(viewer, playerId) ==
  /\ response = NoResponse
  /\ \E allEntries \in TableRows(performance_entries) :
       \E bestEntries \in get_best_daily_entries(viewer) :
         response' = latestReductions(allEntries, bestEntries, playerId)
  /\ request' = [fn |-> "latest", viewer |-> viewer, playerId |-> playerId]
  /\ UNCHANGED <<performance_entries, player_positions, user_roles, auth_users, profiles>>

LatestInputs ==
  [player_id : {"p1", "p2"}, metric_type : {"vertical_jump", "shuttle_5_10_5"},
   entry_date : Dates, value : {4, 5}]

NextLatest ==
  \/ \E e \in LatestInputs : handleAddEntry(e)
  \/ \E playerId \in {"p1", "p2"} : reduceToLatest("coach1", playerId)
  \/ reduceToLatest("p1", "p1")
  \/ ResponseTaken

SpecLatest == Init /\ [][NextLatest]_vars

(***************************************************************************)
(* normalizeMetrics on its own: one item scored against a reference data   *)
(* set of up to two items, which may hold no value of the item's metric.   *)
(***************************************************************************)
normalizeOne(item, allData) ==
  /\ response = NoResponse
  /\ request' = [fn |-> "normalizeMetrics", item |-> item, allData |-> allData]
  /\ response' = [fn |-> "normalizeMetrics", data |-> normalizeMetrics(<<item>>, allData)]
  /\ UNCHANGED <<performance_entries, player_positions, user_roles, auth_users, profiles>>

MetricData ==
  [metric_type : {"30yd_dash", "vertical_jump", "pushups_1min"}, value : 1..MaxValue]

NextNormalizer ==
  \/ \E item \in MetricData : normalizeOne(item, <<>>)
  \/ \E item, a \in MetricData : normalizeOne(item, <<a>>)
  \/ \E item, a, b \in MetricData : normalizeOne(item, <<a, b>>)
  \/ ResponseTaken

SpecNormalizer == Init /\ [][NextNormalizer]_vars

(***************************************************************************)
(* The entry forms.  A number input holds nothing or a decimal number,     *)
(* here a whole number of thousandths.  The browser submits the form only  *)
(* when every input is valid: a required input holds a value, and a value  *)
(* is a multiple of step="0.01" and not below min.  parseFloat of an empty *)
(* input is NaN, which z.number() rejects and for which `> 0` is false.    *)
(* The column is DECIMAL(10, 2): the database rounds what it is sent to    *)
(* hundredths.  The inputs of the model are stored as whole numbers.       *)
(***************************************************************************)
NoMin == 0 - 1000000000

(* An input with no step, which takes any number.                          *)
anyNumber(input, required, min) == required => ~input.blank

validInput(input, required, min) ==
  IF input.blank THEN ~required
  ELSE input.milli % 10 = 0 /\ input.milli >= min

valueSchema(input) ==
  /\ ~input.blank
  /\ input.milli > 0
  /\ input.milli <= 1000 * 1000

isPositive(input) == ~input.blank /\ input.milli > 0

decimal_10_2(milli) == (milli + 5) \div 10

storedValue(input) == decimal_10_2(input.milli) \div 100

handleAddEntrySubmit(player_id, metric_type, entry_date, input) ==
  /\ response = NoResponse
  /\ BagCardinality(performance_entries) < MaxEntries
  /\ validInput(input, TRUE, NoMin)
  /\ metric_type \in MetricType
  /\ valueSchema(input)
  /\ performance_entries' =
       performance_entries (+)
         SetToBag({[player_id |-> player_id, metric_type |-> metric_type,
                    entry_date |-> entry_date, value |-> storedValue(input)]})
  /\ request' = [fn |-> "handleAddEntry", value |-> input]
  /\ UNCHANGED <<player_positions, user_roles, auth_users, profiles, response>>

handleEditEntry(editingEntry, entry_date, input) ==
  /\ response = NoResponse
  /\ BagIn(editingEntry, performance_entries)
  /\ validInput(input, TRUE, NoMin)
  /\ valueSchema(input)
  /\ performance_entries' =
       (performance_entries (-) SetToBag({editingEntry})) (+)
         SetToBag({[editingEntry EXCEPT !.value = storedValue(input),
                                        !.entry_date = entry_date]})
  /\ request' = [fn |-> "handleEditEntry", value |-> input]
  /\ UNCHANGED <<player_positions, user_roles, auth_users, profiles, response>>

(* The rows of a batch, one for each accepted field, as a bag.             *)
RECURSIVE batchEntries(_, _)
batchEntries(rows, i) ==
  IF i > Len(rows) THEN EmptyBag
  ELSE IF rows[i].player_id # "" /\ isPositive(rows[i].input)
    THEN SetToBag({[player_id |-> rows[i].player_id, metric_type |-> rows[i].metric_type,
                    entry_date |-> rows[i].entry_date,
                    value |-> storedValue(rows[i].input)]})
           (+) batchEntries(rows, i + 1)
  ELSE batchEntries(rows, i + 1)

insertBatch(fn, rows) ==
  /\ response = NoResponse
  /\ \A i \in DOMAIN rows : validInput(rows[i].input, FALSE, 0)
  /\ BagCardinality(batchEntries(rows, 1)) > 0
  /\ BagCardinality(performance_entries (+) batchEntries(rows, 1)) <= MaxEntries
  /\ performance_entries' = performance_entries (+) batchEntries(rows, 1)
  /\ request' = [fn |-> fn, rows |-> rows]
  /\ UNCHANGED <<player_positions, user_roles, auth_users, profiles, response>>

handleBatchUserSubmit(selectedUser, entryDate, metrics) ==
  insertBatch("handleBatchUserSubmit",
              [i \in DOMAIN metrics |->
                 [player_id |-> selectedUser, metric_type |-> metrics[i].metric,
                  entry_date |-> entryDate, input |-> metrics[i].input]])

handleBatchExerciseSubmit(selectedExercise, exerciseDate, exerciseRows) ==
  insertBatch("handleBatchExerciseSubmit",
              [i \in DOMAIN exerciseRows |->
                 [player_id |-> exerciseRows[i].playerId, metric_type |-> selectedExercise,
                  entry_date |-> exerciseDate, input |-> exerciseRows[i].value]])

(* What a number input may hold: nothing, -1, 0, 0.004, 1, 1000, 1001.     *)
FormValues ==
  {[blank |-> TRUE, milli |-> 0]} \cup
  {[blank |-> FALSE, milli |-> t] :
     t \in {0 - 1000, 0, 4, 1000, 1000 * 1000, 1001 * 1000}}

FormMetrics == {"vertical_jump", "30yd_dash"}

NextEntries ==
  \/ \E player_id \in {"p1", "p2"}, metric_type \in FormMetrics, input \in FormValues :
       handleAddEntrySubmit(player_id, metric_type, 1, input)
  \/ \E editingEntry \in BagToSet(performance_entries), entry_date \in Dates,
        input \in FormValues :
       handleEditEntry(editingEntry, entry_date, input)
  \/ \E selectedUser \in {"p1", "p2"}, a, b \in FormValues :
       handleBatchUserSubmit(selectedUser, 2,
                             <<[metric |-> "vertical_jump", input |-> a],
                               [metric |-> "30yd_dash", input |-> b]>>)
  \/ \E selectedExercise \in FormMetrics, playerId \in {"", "p2"}, a, b \in FormValues :
       handleBatchExerciseSubmit(selectedExercise, 2,
                                 <<[playerId |-> "p1", value |-> a],
                                   [playerId |-> playerId, value |-> b]>>)

SpecEntries == Init /\ [][NextEntries]_vars

(***************************************************************************)
(* Requests served concurrently.  Each request runs the handler with its   *)
(* own locals and gives way to the others at every await: after the        *)
(* caller and the body are checked, at each read of the database.  request *)
(* holds the calls in flight and response the locals of each: what it has  *)
(* read so far, and its Response once it has returned.  The loop of        *)
(* get-performance-benchmarks repeats one RPC, taken here as one read.     *)
(***************************************************************************)
locals(pc) == [pc |-> pc, allData |-> <<>>, allEntries |-> <<>>, results |-> <<>>]

returned(res) == [pc |-> "done", response |-> res]

(* One results array that every call pushes to.                            *)
resultsOfEveryCall(inflight, c) ==
  IF inflight[1].pc = "done" /\ inflight[1].response.fn = "get-player-neighborhood"
       /\ inflight[1].response.status = 200
    THEN inflight[1].response.results
    ELSE <<>>

(* const results = []: the array of the call itself.                       *)
resultsOfCall(inflight, c) == inflight[c].results

serveConcurrently(calls) ==
  /\ response = NoResponse
  /\ request' = [fn |-> "concurrent", calls |-> calls]
  /\ response' = [fn |-> "concurrent", inflight |-> [c \in DOMAIN calls |-> locals("start")]]
  /\ UNCHANGED <<performance_entries, player_positions, user_roles, auth_users, profiles>>

benchmarksStep(c) ==
  /\ response.fn = "concurrent"
  /\ request.calls[c].fn = "get-performance-benchmarks"
  /\ LET call == request.calls[c]
         my == response.inflight[c]
         fn == "get-performance-benchmarks"
     IN \/ /\ my.pc = "start"
           /\ response' =
                [response EXCEPT !.inflight[c] =
                   IF call.caller = NoUser THEN returned([fn |-> fn, status |-> 401])
                   ELSE IF ~requestSchema(call.body)
                     THEN returned([fn |-> fn, status |-> 400])
                   ELSE locals("rawData")]
        \/ /\ my.pc = "rawData"
           /\ \E rawData \in {s \in TableRows(performance_entries) : OrderedByDateDesc(s)} :
                response' = [response EXCEPT !.inflight[c] =
                               [locals("entries") EXCEPT !.allData = bestEntriesMap(rawData)]]
        \/ /\ my.pc = "entries"
           /\ \E entries \in get_best_daily_entries(NoUser) :
                response' =
                  [response EXCEPT !.inflight[c] =
                     returned([fn |-> fn, status |-> 200,
                               benchmarks |->
                                 benchmarks(entries,
                                            playerIds(call.body.mode, call.body.position),
                                            1, <<>>),
                               allData |-> my.allData])]
  /\ UNCHANGED <<performance_entries, player_positions, user_roles, auth_users, profiles, request>>

(***************************************************************************)
(* Entries change while calls are being served: the insert of              *)
(* handleAddEntry, the update of handleEditEntry and the delete of         *)
(* handleDeleteEntry, committed by another client between two awaits of a  *)
(* handler.  No handler reads inside a transaction.                        *)
(***************************************************************************)
insertedMeanwhile(e) ==
  /\ response.fn = "concurrent"
  /\ BagCardinality(performance_entries) < MaxEntries
  /\ performanceEntrySchema(e)
  /\ performance_entries' = performance_entries (+) SetToBag({e})
  /\ UNCHANGED <<player_positions, user_roles, auth_users, profiles, request, response>>

editedMeanwhile(e, value) ==
  /\ response.fn = "concurrent"
  /\ BagIn(e, performance_entries)
  /\ value # e.value
  /\ performanceEntrySchema([e EXCEPT !.value = value])
  /\ performance_entries' =
       (performance_entries (-) SetToBag({e})) (+) SetToBag({[e EXCEPT !.value = value]})
  /\ UNCHANGED <<player_positions, user_roles, auth_users, profiles, request, response>>

deletedMeanwhile(e) ==
  /\ response.fn = "concurrent"
  /\ BagIn(e, performance_entries)
  /\ performance_entries' = performance_entries (-) SetToBag({e})
  /\ UNCHANGED <<player_positions, user_roles, auth_users, profiles, request, response>>

neighborhoodStep(c) ==
  /\ response.fn = "concurrent"
  /\ request.calls[c].fn = "get-player-neighborhood"
  /\ LET call == request.calls[c]
         my == response.inflight[c]
         fn == "get-player-neighborhood"
     IN \/ /\ my.pc = "start"
           /\ response' =
                [response EXCEPT !.inflight[c] =
                   IF call.caller = NoUser \/ call.player_id = Absent
                     THEN returned([fn |-> fn, status |-> 400])
                   ELSE locals("allEntries")]
        \/ /\ my.pc = "allEntries"
           /\ \E allEntries \in TableRows(performance_entries) :
                response' =
                  [response EXCEPT !.inflight[c] =
                     IF ~\E i \in DOMAIN allEntries : allEntries[i].player_id = call.player_id
                       THEN returned([fn |-> fn, status |-> 200, results |-> <<>>])
                       ELSE [locals("profiles") EXCEPT !.allEntries = allEntries]]
        \/ /\ my.pc = "profiles"
           /\ response' =
                [response EXCEPT !.inflight[c] =
                   returned([fn |-> fn, status |-> 200,
                             results |->
                               resultsOfCall(response.inflight, c) \o
                                 [k \in DOMAIN metricNames |->
                                    metricNeighborhood(latestEntries(my.allEntries),
                                                       metricNames[k], call.player_id)]])]
  /\ UNCHANGED <<performance_entries, player_positions, user_roles, auth_users, profiles, request>>

(* The callers take their responses once every call has returned.          *)
responsesTaken ==
  /\ response.fn = "concurrent"
  /\ \A c \in DOMAIN response.inflight : response.inflight[c].pc = "done"
  /\ request' = [fn |-> "none"]
  /\ response' = NoResponse
  /\ UNCHANGED <<performance_entries, player_positions, user_roles, auth_users, profiles>>

ConcurrentEntries ==
  [player_id : {"p1", "p2"}, metric_type : {"vertical_jump"}, entry_date : {1},
   value : {4, 5}]

ConcurrentCalls ==
  {[fn |-> "get-performance-benchmarks", caller |-> "p1",
    body |-> [mode |-> "best", position |-> Absent]],
   [fn |-> "get-performance-benchmarks", caller |-> "p2",
    body |-> [mode |-> "position", position |-> "QB"]],
   [fn |-> "get-player-neighborhood", caller |-> "p1", player_id |-> "p1"],
   [fn |-> "get-player-neighborhood", caller |-> "p2", player_id |-> "p2"]}

BenchmarkCalls == {call \in ConcurrentCalls : call.fn = "get-performance-benchmarks"}

(* One get-performance-benchmarks request served while entries change.     *)
NextServing ==
  \/ \E e \in ConcurrentEntries : handleAddEntry(e)
  \/ handleUpdateUser("p1", "QB")
  \/ \E call \in BenchmarkCalls : serveConcurrently(<<call>>)
  \/ benchmarksStep(1)
  \/ \E e \in ConcurrentEntries : insertedMeanwhile(e)
  \/ \E e \in ConcurrentEntries, value \in {4, 5} : editedMeanwhile(e, value)
  \/ \E e \in ConcurrentEntries : deletedMeanwhile(e)
  \/ responsesTaken

SpecServing == Init /\ [][NextServing]_vars

NextConcurrent ==
  \/ \E e \in ConcurrentEntries : handleAddEntry(e)
  \/ handleUpdateUser("p1", "QB")
  \/ \E first, second \in ConcurrentCalls : serveConcurrently(<<first, second>>)
  \/ \E c \in {1, 2} : benchmarksStep(c)
  \/ \E c \in {1, 2} : neighborhoodStep(c)
  \/ responsesTaken

SpecConcurrent == Init /\ [][NextConcurrent]_vars

NeighborhoodEntries ==
  [player_id : Players, metric_type : {"30yd_dash", "vertical_jump"},
   entry_date : Dates, value : Values]

NextNeighborhood ==
  \/ \E e \in NeighborhoodEntries : handleAddEntry(e)
  \/ \E p \in Players \cup {Absent} : getPlayerNeighborhood("p1", p)
  \/ getPlayerNeighborhood(NoUser, "p1")
  \/ ResponseTaken

SpecNeighborhood == Init /\ [][NextNeighborhood]_vars

(***************************************************************************)
(* Inputs of the benchmark scenarios.                                      *)
(***************************************************************************)
BenchmarkEntries ==
  [player_id : {"p1", "p2"}, metric_type : {"vertical_jump", "30yd_dash"},
   entry_date : Dates, value : {4, 5}]

BenchmarkAssignments ==
  {<<"p1", "QB">>, <<"p1", "unassigned">>, <<"p2", "DB">>, <<"p2", "unassigned">>}

BenchmarkRequests ==
  [mode : {"best", "position", "offense", "defense", "compare"},
   position : {Absent, "QB", "WR"}]

NextBenchmarks ==
  \/ \E e \in BenchmarkEntries : handleAddEntry(e)
  \/ \E a \in BenchmarkAssignments : handleUpdateUser(a[1], a[2])
  \/ \E body \in BenchmarkRequests : getPerformanceBenchmarks("p1", body)
  \/ getPerformanceBenchmarks(NoUser, [mode |-> "best", position |-> Absent])
  \/ ResponseTaken

SpecBenchmarks == Init /\ [][NextBenchmarks]_vars

(***************************************************************************)
(* Inputs of the comparison scenarios.                                     *)
(***************************************************************************)
ComparisonEntries ==
  [player_id : {"p1", "p2"}, metric_type : {"vertical_jump", "30yd_dash", "pushups_1min"},
   entry_date : Dates, value : {5, 7}]

ComparisonRequests ==
  {<<"p1", "p1", "best", NoValue>>, <<"p1", "p1", "position", "QB">>,
   <<"p1", "p1", "position", NoValue>>, <<"coach1", "p2", "offense", NoValue>>,
   <<"coach1", "p1", "defense", NoValue>>}

NextComparison ==
  \/ \E e \in ComparisonEntries : handleAddEntry(e)
  \/ handleUpdateUser("p1", "QB")
  \/ \E r \in ComparisonRequests : fetchComparisonData(r[1], r[2], r[3], r[4])
  \/ ResponseTaken

SpecComparison == Init /\ [][NextComparison]_vars

(***************************************************************************)
(* The percentile expression on its own, for rosters of up to MaxRoster    *)
(* players with an entry: the inputs are the two counts the handler takes  *)
(* from the sorted entries.                                                *)
(***************************************************************************)
computePercentile(playersStrictlyWorseCount, totalPlayers) ==
  /\ response = NoResponse
  /\ request' = [fn |-> "percentile",
                 playersStrictlyWorseCount |-> playersStrictlyWorseCount,
                 totalPlayers |-> totalPlayers]
  /\ response' = [fn |-> "percentile",
                  percentile |-> percentile(playersStrictlyWorseCount, totalPlayers)]
  /\ UNCHANGED <<performance_entries, player_positions, user_roles, auth_users, profiles>>

NextPercentile ==
  \/ \E totalPlayers \in 1..MaxRoster :
       \E playersStrictlyWorseCount \in 0..(totalPlayers - 1) :
         computePercentile(playersStrictlyWorseCount, totalPlayers)
  \/ ResponseTaken

SpecPercentile == Init /\ [][NextPercentile]_vars

(***************************************************************************)
(* usePerformanceComparison as a mounted hook.  request holds the viewer,  *)
(* the props of the latest render and the calls of fetchComparisonData     *)
(* that have been started, each with the props of the render that started  *)
(* it and the await it is at; response holds the hook's state.  An effect  *)
(* runs fetchComparisonData at the mount and whenever mode,                *)
(* selectedPosition or currentUserId changes, and the realtime callback    *)
(* runs it at every change of performance_entries; no call is cancelled.   *)
(* At most MaxFetches calls are started per mount.                         *)
(***************************************************************************)
hookProps(currentUserId, mode, selectedPosition) ==
  [currentUserId |-> currentUserId, mode |-> mode, selectedPosition |-> selectedPosition]

started(props) == [props |-> props, pc |-> "currentData", currentData |-> <<>>]

mounted == request.fn = "usePerformanceComparison"

(* setIsLoading(true); setError(null): the call up to its first await.     *)
loading(state) == [state EXCEPT !.isLoading = TRUE, !.error = NoValue]

usePerformanceComparison(viewer, props) ==
  /\ request.fn = "none"
  /\ response = NoResponse
  /\ props.currentUserId = viewer \/ has_role(viewer, "coach") \/ has_role(viewer, "admin")
  /\ request' = [fn |-> "usePerformanceComparison", viewer |-> viewer, props |-> props,
                 fetches |-> <<started(props)>>]
  /\ response' = [fn |-> "usePerformanceComparison", data |-> <<>>, error |-> NoValue,
                  isLoading |-> TRUE, allMetricsData |-> <<>>]
  /\ UNCHANGED <<performance_entries, player_positions, user_roles, auth_users, profiles>>

(* A render with changed props: the effect of line 50 runs.                *)
propsChanged(props) ==
  /\ mounted
  /\ Len(request.fetches) < MaxFetches
  /\ props # request.props
  /\ request' = [request EXCEPT !.props = props, !.fetches = Append(@, started(props))]
  /\ response' = loading(response)
  /\ UNCHANGED <<performance_entries, player_positions, user_roles, auth_users, profiles>>

(* The realtime callback: a refetch with the props of the latest render.   *)
postgres_changes ==
  /\ mounted
  /\ Len(request.fetches) < MaxFetches
  /\ request' = [request EXCEPT !.fetches = Append(@, started(request.props))]
  /\ response' = loading(response)
  /\ UNCHANGED <<performance_entries, player_positions, user_roles, auth_users, profiles>>

(* setData(result); setError(null); setIsLoading(false), or setError on a  *)
(* failed request: whatever call resolves writes the hook's state.         *)
setData(state, result, props) ==
  IF result.error # NoValue
    THEN [state EXCEPT !.error = result.error, !.isLoading = FALSE]
    ELSE [state EXCEPT !.data = result.data, !.error = NoValue, !.isLoading = FALSE]

benchmarkBody(props) ==
  [mode |-> props.mode,
   position |-> IF props.selectedPosition = NoValue THEN Absent ELSE props.selectedPosition]

fetchComparisonDataAwait(c) ==
  /\ mounted
  /\ c \in DOMAIN request.fetches
  /\ LET my == request.fetches[c]
     IN \/ /\ my.pc = "currentData"
           /\ \E bestEntries \in get_best_daily_entries(request.viewer) :
                request' =
                  [request EXCEPT
                     !.fetches[c] =
                       [my EXCEPT !.pc = "benchmarks",
                                  !.currentData =
                                    fetchLatestPlayerMetrics(bestEntries,
                                                             my.props.currentUserId)]]
           /\ response' = response
        \/ /\ my.pc = "benchmarks"
           /\ \E rawData \in {s \in TableRows(performance_entries) : OrderedByDateDesc(s)} :
                \E entries \in get_best_daily_entries(NoUser) :
                  LET benchmarkResponse ==
                        benchmarksResponse(request.viewer, benchmarkBody(my.props),
                                           rawData, entries)
                      result == comparisonData(my.props.mode, my.props.selectedPosition,
                                               my.currentData, benchmarkResponse)
                  IN response' =
                       setData(IF result.error = NoValue
                                 THEN [response EXCEPT
                                         !.allMetricsData = benchmarkResponse.allData]
                                 ELSE response,
                               result, my.props)
           /\ request' = [request EXCEPT !.fetches[c].pc = "done"]
  /\ UNCHANGED <<performance_entries, player_positions, user_roles, auth_users, profiles>>

HookEntries ==
  [player_id : {"p1", "p2"}, metric_type : {"vertical_jump"}, entry_date : {1},
   value : {5, 7}]

HookProps ==
  {hookProps("p1", "best", NoValue), hookProps("p2", "best", NoValue),
   hookProps("p1", "position", "QB"), hookProps("p1", "position", NoValue)}

NextHook ==
  \/ \E e \in HookEntries : handleAddEntry(e)
  \/ \E props \in HookProps : usePerformanceComparison("coach1", props)
  \/ \E props \in HookProps : propsChanged(props)
  \/ postgres_changes
  \/ \E c \in 1..MaxFetches : fetchComparisonDataAwait(c)
  \/ ResponseTaken

SpecHook == Init /\ [][NextHook]_vars

(***************************************************************************)
(* Accounts.  auth_users maps the id of every auth.users row to its        *)
(* password, profiles is the set of ids with a profiles row, and           *)
(* user_roles[u] is the set of roles of the user_roles rows of u.  The     *)
(* edge functions and the Users page are sequences of awaited calls; each  *)
(* call either takes effect or returns an error and changes nothing.       *)
(* request holds the operation in flight: its inputs, the call it is at    *)
(* (pc), and the stored state it started from (before).                    *)
(***************************************************************************)
AccountIds == {"admin1", "coach1", "p1", "new1"}

stored ==
  [performance_entries |-> performance_entries, player_positions |-> player_positions,
   user_roles |-> user_roles, auth_users |-> auth_users, profiles |-> profiles]

store(s) ==
  /\ performance_entries' = s.performance_entries
  /\ player_positions' = s.player_positions
  /\ user_roles' = s.user_roles
  /\ auth_users' = s.auth_users
  /\ profiles' = s.profiles

idle == request.fn = "none" /\ response = NoResponse

inFlight(fn, pc) == request.fn = fn /\ request.pc = pc /\ response = NoResponse

(* DELETE FROM <table> WHERE <user column> = id.                           *)
deleteEntriesOf(s, id) ==
  [s EXCEPT !.performance_entries =
     [e \in {x \in DOMAIN s.performance_entries : x.player_id # id} |->
        s.performance_entries[e]]]

deletePositionsOf(s, id) ==
  [s EXCEPT !.player_positions =
     [p \in DOMAIN s.player_positions |->
        IF p = id THEN NoPosition ELSE s.player_positions[p]]]

deleteRolesOf(s, id) ==
  [s EXCEPT !.user_roles = [u \in DOMAIN s.user_roles |->
                              IF u = id THEN {} ELSE s.user_roles[u]]]

deleteProfileOf(s, id) == [s EXCEPT !.profiles = s.profiles \ {id}]

(* auth.admin.deleteUser: the auth.users row goes, and with it every row   *)
(* that references it ON DELETE CASCADE.                                   *)
deleteAuthUser(s, id) ==
  [deleteProfileOf(deleteRolesOf(deletePositionsOf(deleteEntriesOf(s, id), id), id), id)
     EXCEPT !.auth_users = [u \in DOMAIN s.auth_users \ {id} |-> s.auth_users[u]]]

(* auth.admin.createUser: the auth.users row, and the profiles row that    *)
(* the trigger on_auth_user_created inserts.                               *)
createAuthUser(s, id, password) ==
  [s EXCEPT !.auth_users = [u \in DOMAIN s.auth_users \cup {id} |->
                              IF u = id THEN password ELSE s.auth_users[u]],
            !.profiles = s.profiles \cup {id}]

uuid(userId) == userId \in AccountIds

(***************************************************************************)
(* delete-user.                                                            *)
(***************************************************************************)
deleteUserSchema(body) == uuid(body.userId)

(* The caller's checks, in the order of every account function: 401 for a  *)
(* caller who is not authenticated, 403 unless the caller's own roles are  *)
(* read and hold admin, 400 for a body the schema rejects.                 *)
(* A check that lets every authenticated caller through.                   *)
everyCaller(caller, rolesError) == FALSE

refused(caller, rolesError) == rolesError \/ ~has_role(caller, "admin")

checked(fn, caller, body, rolesError, valid, firstCall) ==
  /\ idle
  /\ LET op == [fn |-> fn, caller |-> caller, body |-> body, before |-> stored]
     IN IF caller = NoUser \/ refused(caller, rolesError) \/ ~valid
          THEN /\ request' = op @@ [pc |-> "done"]
               /\ response' = [fn |-> fn,
                               status |-> IF caller = NoUser THEN 401
                                          ELSE IF refused(caller, rolesError) THEN 403
                                          ELSE 400]
          ELSE /\ request' = op @@ [pc |-> firstCall]
               /\ response' = response
  /\ UNCHANGED <<performance_entries, player_positions, user_roles, auth_users, profiles>>

deleteUser(caller, body, rolesError) ==
  checked("delete-user", caller, body, rolesError, deleteUserSchema(body),
          "performance_entries")

deleteUserCalls ==
  <<"performance_entries", "player_positions", "user_roles", "profiles", "auth.users">>

deleteUserCall(error) ==
  /\ request.fn = "delete-user"
  /\ response = NoResponse
  /\ \E k \in DOMAIN deleteUserCalls :
       /\ request.pc = deleteUserCalls[k]
       /\ LET userId == request.body.userId
              failed == error \/ (k = 5 /\ userId \notin DOMAIN auth_users)
          IN /\ store(IF failed THEN stored
                      ELSE CASE k = 1 -> deleteEntriesOf(stored, userId)
                             [] k = 2 -> deletePositionsOf(stored, userId)
                             [] k = 3 -> deleteRolesOf(stored, userId)
                             [] k = 4 -> deleteProfileOf(stored, userId)
                             [] k = 5 -> deleteAuthUser(stored, userId))
             /\ IF failed
                  THEN /\ response' = [fn |-> "delete-user", status |-> 500]
                       /\ request' = request
                  ELSE IF k = 5
                    THEN /\ response' = [fn |-> "delete-user", status |-> 200]
                         /\ request' = [request EXCEPT !.pc = "done"]
                    ELSE /\ response' = response
                         /\ request' = [request EXCEPT !.pc = deleteUserCalls[k + 1]]

(***************************************************************************)
(* create-user.  A password is its text and its length; the id the auth    *)
(* service gives the new user is new1, and its e-mail address is taken     *)
(* while new1 exists.                                                      *)
(***************************************************************************)
createUserSchema(body) ==
  /\ body.username \in {"new.user"}
  /\ body.password.length >= 8
  /\ body.password.length <= 255
  /\ Len(body.roles) >= 1
  /\ \A i \in DOMAIN body.roles : body.roles[i] \in {"admin", "coach", "player"}

createUser(caller, body, rolesError) ==
  checked("create-user", caller, body, rolesError, createUserSchema(body), "createUser")

(* INSERT of several rows is one statement: a row that breaks              *)
(* UNIQUE (user_id, role) fails all of them.                               *)
uniqueRoles(roles) == \A i, j \in DOMAIN roles : roles[i] = roles[j] => i = j

createUserCall(error) ==
  /\ request.fn = "create-user"
  /\ response = NoResponse
  /\ \/ /\ request.pc = "createUser"
        /\ IF error \/ "new1" \in DOMAIN auth_users
             THEN /\ response' = [fn |-> "create-user", status |-> 400]
                  /\ request' = request
                  /\ store(stored)
             ELSE /\ response' = response
                  /\ request' = [request EXCEPT !.pc = "insert"] @@ [newUser |-> "new1"]
                  /\ store(createAuthUser(stored, "new1", request.body.password.text))
     \/ /\ request.pc = "insert"
        /\ IF error \/ ~uniqueRoles(request.body.roles)
             THEN /\ response' = response
                  /\ request' = [request EXCEPT !.pc = "cleanup"]
                  /\ store(stored)
             ELSE /\ response' = [fn |-> "create-user", status |-> 200,
                                  userId |-> request.newUser]
                  /\ request' = [request EXCEPT !.pc = "done"]
                  /\ store([stored EXCEPT !.user_roles[request.newUser] =
                                            Range(request.body.roles)])
     \/ /\ request.pc = "cleanup"
        /\ response' = [fn |-> "create-user", status |-> 400]
        /\ request' = [request EXCEPT !.pc = "done"]
        /\ store(IF error THEN stored ELSE deleteAuthUser(stored, request.newUser))

(***************************************************************************)
(* reset-user-password.                                                    *)
(***************************************************************************)
resetPasswordSchema(body) ==
  /\ uuid(body.userId)
  /\ body.newPassword.length >= 6
  /\ body.newPassword.length <= 128

resetUserPassword(caller, body, rolesError) ==
  checked("reset-user-password", caller, body, rolesError, resetPasswordSchema(body),
          "updateUserById")

updateUserById(error) ==
  /\ inFlight("reset-user-password", "updateUserById")
  /\ IF error \/ request.body.userId \notin DOMAIN auth_users
       THEN /\ response' = [fn |-> "reset-user-password", status |-> 500]
            /\ request' = request
            /\ store(stored)
       ELSE /\ response' = [fn |-> "reset-user-password", status |-> 200]
            /\ request' = [request EXCEPT !.pc = "done"]
            /\ store([stored EXCEPT !.auth_users[request.body.userId] =
                                      request.body.newPassword.text])

(***************************************************************************)
(* handleUpdateUser of the Users page, the roles and the position of the   *)
(* edited user.  The page's client acts as the signed-in editor under      *)
(* row-level security: the rows of user_roles an editor sees are their own *)
(* or, for an admin, everyone's; only an admin inserts or deletes them;    *)
(* admins and coaches manage player_positions.  The names written to       *)
(* profiles are not part of the state.                                     *)
(***************************************************************************)
toast(title) == [fn |-> "handleUpdateUser", toast |-> title]

managesRoles(editor) == has_role(editor, "admin")

managesPositions(editor) == has_role(editor, "admin") \/ has_role(editor, "coach")

afterRoles(op) ==
  IF "player" \in op.selectedRoles THEN "deletePositions" ELSE "deleteAllPositions"

handleUpdateUserSubmit(editor, editingUser, selectedRoles, primaryPosition) ==
  /\ idle
  /\ LET op == [fn |-> "handleUpdateUser", editor |-> editor,
                editingUser |-> editingUser, selectedRoles |-> selectedRoles,
                primaryPosition |-> primaryPosition, rolesToAdd |-> {},
                rolesToRemove |-> {}, before |-> stored]
     IN IF selectedRoles = {}
          THEN /\ request' = op @@ [pc |-> "done"]
               /\ response' = toast("Error")
          ELSE /\ request' = op @@ [pc |-> "profiles"]
               /\ response' = response
  /\ UNCHANGED <<performance_entries, player_positions, user_roles, auth_users, profiles>>

(* The stored roles deleted, then the added ones inserted.                 *)
deleteFirst(s, op) ==
  [s EXCEPT !.user_roles[op.editingUser] = op.rolesToAdd]

insertRoles(s, op) ==
  [s EXCEPT !.user_roles[op.editingUser] = @ \cup op.rolesToAdd]

handleUpdateUserCall(error) ==
  /\ request.fn = "handleUpdateUser"
  /\ response = NoResponse
  /\ LET op == request
         id == request.editingUser
         proceed(pc, s) == /\ request' = [request EXCEPT !.pc = pc]
                           /\ response' = response
                           /\ store(s)
         finish(title, s) == /\ request' = [request EXCEPT !.pc = "done"]
                             /\ response' = toast(title)
                             /\ store(s)
     IN \/ /\ op.pc = "profiles"
           /\ IF error THEN finish("Error", stored) ELSE proceed("existingRoles", stored)
        \/ /\ op.pc = "existingRoles"
           /\ LET existingRoleNames ==
                    IF error \/ ~(op.editor = id \/ managesRoles(op.editor))
                      THEN {} ELSE user_roles[id]
                  rolesToAdd == op.selectedRoles \ existingRoleNames
                  rolesToRemove == existingRoleNames \ op.selectedRoles
              IN /\ request' = [request EXCEPT
                                  !.rolesToAdd = rolesToAdd,
                                  !.rolesToRemove = rolesToRemove,
                                  !.pc = IF rolesToAdd # {} THEN "insertRoles"
                                         ELSE IF rolesToRemove # {} THEN "deleteRoles"
                                         ELSE afterRoles(op)]
                 /\ response' = response
                 /\ store(stored)
        \/ /\ op.pc = "insertRoles"
           /\ IF \/ error
                 \/ ~managesRoles(op.editor)
                 \/ id \notin DOMAIN auth_users
                 \/ op.rolesToAdd \cap user_roles[id] # {}
                THEN finish("Error", stored)
                ELSE proceed(IF op.rolesToRemove # {} THEN "deleteRoles" ELSE afterRoles(op),
                             insertRoles(stored, op))
        \/ /\ op.pc = "deleteRoles"
           /\ IF error THEN finish("Error", stored)
              ELSE proceed(afterRoles(op),
                           IF managesRoles(op.editor)
                             THEN [stored EXCEPT !.user_roles[id] = @ \ op.rolesToRemove]
                             ELSE stored)
        \/ /\ op.pc = "deletePositions"
           /\ IF error THEN finish("Error", stored)
              ELSE LET s == IF managesPositions(op.editor)
                              THEN deletePositionsOf(stored, id) ELSE stored
                   IN IF op.primaryPosition # "unassigned"
                        THEN proceed("insertPosition", s) ELSE finish("Success", s)
        \/ /\ op.pc = "insertPosition"
           /\ IF error \/ ~managesPositions(op.editor) \/ id \notin DOMAIN auth_users
                THEN finish("Error", stored)
                ELSE finish("Success",
                            [stored EXCEPT !.player_positions[id] = op.primaryPosition])
        \/ /\ op.pc = "deleteAllPositions"
           /\ finish("Success",
                     IF error \/ ~managesPositions(op.editor)
                       THEN stored ELSE deletePositionsOf(stored, id))

(***************************************************************************)
(* Inputs of the account scenarios: an admin, a coach and a player with a  *)
(* position and an entry; new1 has no account yet.                         *)
(***************************************************************************)
InitAccounts ==
  /\ performance_entries =
       SetToBag({[player_id |-> "p1", metric_type |-> "vertical_jump",
                  entry_date |-> 1, value |-> 4]})
  /\ player_positions = [p \in Players |-> IF p = "p1" THEN "QB" ELSE NoPosition]
  /\ user_roles = [u \in AccountIds |->
                     CASE u = "admin1" -> {"admin"}
                       [] u = "coach1" -> {"coach"}
                       [] u = "p1" -> {"player"}
                       [] OTHER -> {}]
  /\ auth_users = [u \in {"admin1", "coach1", "p1"} |-> "initial"]
  /\ profiles = {"admin1", "coach1", "p1"}
  /\ request = [fn |-> "none"]
  /\ response = NoResponse

Callers == {"admin1", "coach1", NoUser}

Passwords == {[text |-> "secret-8", length |-> 8], [text |-> "short", length |-> 5]}

DeleteBodies == [userId : {"p1", "new1", "not-a-uuid"}]

CreateBodies ==
  [username : {"new.user"}, password : Passwords,
   roles : {<<"player">>, <<"player", "coach">>, <<"player", "player">>, <<>>}]
    \cup {[username |-> "New User", password |-> [text |-> "secret-8", length |-> 8],
           roles |-> <<"player">>]}

ResetBodies == [userId : {"p1", "not-a-uuid"}, newPassword : Passwords]

NextAccounts ==
  \/ \E caller \in Callers, rolesError \in BOOLEAN :
       \/ \E body \in DeleteBodies : deleteUser(caller, body, rolesError)
       \/ \E body \in CreateBodies : createUser(caller, body, rolesError)
       \/ \E body \in ResetBodies : resetUserPassword(caller, body, rolesError)
  \/ \E editor \in {"admin1", "coach1"}, selectedRoles \in SUBSET {"player", "coach"},
        primaryPosition \in {"QB", "unassigned"} :
       handleUpdateUserSubmit(editor, "p1", selectedRoles, primaryPosition)
  \/ \E error \in BOOLEAN :
       \/ deleteUserCall(error)
       \/ createUserCall(error)
       \/ updateUserById(error)
       \/ handleUpdateUserCall(error)
  \/ ResponseTaken

SpecAccounts == InitAccounts /\ [][NextAccounts]_vars

Next ==
  \/ NextBenchmarks
  \/ NextNeighborhood
  \/ NextComparison
  \/ NextPercentile
  \/ NextLatest
  \/ NextNormalizer
  \/ NextEntries
  \/ NextConcurrent
  \/ NextServing
  \/ NextAccounts
  \/ NextHook

Spec == Init /\ [][Next]_vars

(***************************************************************************)
(* What the claims are stated against: the stored rows, a metric's         *)
(* direction, a player's latest best-daily value and a mode's cohort.      *)
(***************************************************************************)
StoredEntries == BagToSet(performance_entries)

BestOf(metric, values) == IF metric \in LOWER_IS_BETTER THEN Min(values) ELSE Max(values)

HasEntry(p, metric) ==
  \E e \in StoredEntries : e.player_id = p /\ e.metric_type = metric

LatestBestDaily(p, metric) ==
  LET mine == {e \in StoredEntries : e.player_id = p /\ e.metric_type = metric}
      last == Max({e.entry_date : e \in mine})
  IN BestOf(metric, {e.value : e \in {f \in mine : f.entry_date = last}})

Cohort(mode, position) ==
  CASE mode = "best" -> Players
    [] mode = "position" -> {p \in Players : player_positions[p] = position}
    [] mode = "offense" -> {p \in Players : player_positions[p] \in {"QB", "WR", "C"}}
    [] mode = "defense" -> {p \in Players : player_positions[p] \in {"DB", "B"}}

CohortValues(mode, position, metric) ==
  {LatestBestDaily(p, metric) : p \in {q \in Cohort(mode, position) : HasEntry(q, metric)}}

(* A served benchmark request for a cohort the mode defines.               *)
BenchmarksServed ==
  /\ response.fn = "get-performance-benchmarks"
  /\ response.status = 200
  /\ request.body.mode = "position" => request.body.position # Absent

(* C1: in the data a benchmark response carries, the row kept for a        *)
(* (player_id, metric_type, entry_date) key has the minimum of the key's   *)
(* values for a timed metric and the maximum for any other metric.         *)
C1_ReducerKeepsBestOfKey ==
  (response.fn = "get-performance-benchmarks" /\ response.status = 200) =>
    \A i \in DOMAIN response.allData :
      LET kept == response.allData[i]
      IN kept.value =
           BestOf(kept.metric_type,
                  {e.value : e \in {f \in StoredEntries :
                                      /\ f.player_id = kept.player_id
                                      /\ f.metric_type = kept.metric_type
                                      /\ f.entry_date = kept.entry_date}})

(* C2: for every mode and metric, the benchmark returned is the best of    *)
(* the latest best-daily values of the cohort's members.                   *)
C2_BenchmarkIsCohortBest ==
  BenchmarksServed =>
    \A metric \in MetricType :
      CohortValues(request.body.mode, request.body.position, metric) # {} =>
        \E i \in DOMAIN response.benchmarks :
          /\ response.benchmarks[i].metric_type = metric
          /\ response.benchmarks[i].value =
               BestOf(metric, CohortValues(request.body.mode, request.body.position,
                                           metric))

C5_PositionModeNeedsPosition ==
  (/\ request.fn = "get-performance-benchmarks"
   /\ request.caller # NoUser
   /\ request.body.mode = "position"
   /\ request.body.position = Absent) =>
    response.status = 400

(* C6: every metric of the enumeration for which a cohort member has an    *)
(* entry has a best value in the response.                                 *)
C6_EveryMetricWithDataHasBenchmark ==
  BenchmarksServed =>
    \A metric \in MetricType :
      (\E p \in Cohort(request.body.mode, request.body.position) : HasEntry(p, metric)) =>
        \E i \in DOMAIN response.benchmarks : response.benchmarks[i].metric_type = metric

(* The "You" series of a comparison result, empty when there is none.      *)
YouSeries ==
  IF MapHas(response.data, "You") THEN MapGet(response.data, "You") ELSE <<>>

ComparisonServed == response.fn = "fetchComparisonData" /\ response.error = NoValue

(* C3: in the "You" series, a raw value equal to the best value of the     *)
(* selected mode's cohort has the score 100.                               *)
C3_CohortBestScores100 ==
  ComparisonServed =>
    \A i \in DOMAIN YouSeries :
      \A metric \in MetricType :
        LET cohort == CohortValues(request.mode, request.selectedPosition, metric)
        IN (/\ METRIC_LABELS[metric] = YouSeries[i].metric
            /\ cohort # {}
            /\ YouSeries[i].rawValue = BestOf(metric, cohort)) =>
             YouSeries[i].value = 100

(* C7: the percentile is 100 x W / (N - 1) rounded to the nearest integer  *)
(* (a half rounding up), and 100 when N = 1.                               *)
C7_PercentileIsRoundedQuotient ==
  response.fn = "percentile" =>
    response.percentile =
      IF request.totalPlayers = 1 THEN 100
      ELSE ((200 * request.playersStrictlyWorseCount) + (request.totalPlayers - 1))
             \div (2 * (request.totalPlayers - 1))

(* A neighborhood response with a record per metric, and the values of the *)
(* requested player's teammates that are strictly better than the player's *)
(* own for a metric.                                                       *)
NeighborhoodServed ==
  /\ response.fn = "get-player-neighborhood"
  /\ response.status = 200
  /\ response.results # <<>>

StrictlyBetter(metric) ==
  LET own == LatestBestDaily(request.player_id, metric)
  IN {LatestBestDaily(p, metric) :
        p \in {q \in Players \ {request.player_id} :
                 /\ HasEntry(q, metric)
                 /\ IF metric \in LOWER_IS_BETTER
                      THEN LatestBestDaily(q, metric) < own
                      ELSE LatestBestDaily(q, metric) > own}}

(* C8: next_best_value is the strictly better teammate value closest to    *)
(* the player's own, and null exactly when no teammate is strictly better. *)
C8_NextBestIsClosestStrictlyBetter ==
  NeighborhoodServed =>
    \A i \in DOMAIN response.results :
      LET r == response.results[i]
      IN IF ~HasEntry(request.player_id, r.metric_type)
           THEN r.current_value = NoNumber /\ r.next_best_value = NoNumber
           ELSE /\ r.current_value = LatestBestDaily(request.player_id, r.metric_type)
                /\ r.next_best_value =
                     IF StrictlyBetter(r.metric_type) = {} THEN NoNumber
                     ELSE IF r.metric_type \in LOWER_IS_BETTER
                       THEN Max(StrictlyBetter(r.metric_type))
                       ELSE Min(StrictlyBetter(r.metric_type))

(* C8 witness: a teammate ties with the player, another is strictly        *)
(* better, and the better value is returned.                               *)
C8_Witness ==
  /\ NeighborhoodServed
  /\ \E i \in DOMAIN response.results :
       LET r == response.results[i]
       IN /\ r.current_value # NoNumber
          /\ r.next_best_value # NoNumber
          /\ \E p \in Players \ {request.player_id} :
               /\ HasEntry(p, r.metric_type)
               /\ LatestBestDaily(p, r.metric_type) = r.current_value

(* C9: the Team Leader badge is shown for a metric exactly when the player *)
(* has a value for it and no teammate has a strictly better one.           *)
C9_TeamLeaderIffNobodyBetter ==
  NeighborhoodServed =>
    \A i \in DOMAIN response.results :
      LET r == response.results[i]
      IN (r.current_value # NoNumber /\ teamLeaderBadge(r)) <=>
           (HasEntry(request.player_id, r.metric_type) /\ StrictlyBetter(r.metric_type) = {})

(* C10: the "You" series has exactly one score for each metric the player  *)
(* has an entry for, and no element for any other metric.                  *)
C10_OneScorePerMetricWithData ==
  ComparisonServed =>
    /\ \A metric \in MetricType :
         Cardinality({i \in DOMAIN YouSeries : YouSeries[i].metric = METRIC_LABELS[metric]}) =
           IF HasEntry(request.currentUserId, metric) THEN 1 ELSE 0
    /\ Len(YouSeries) =
         Cardinality({metric \in MetricType : HasEntry(request.currentUserId, metric)})

(* C10 witness: the player has several entries of one metric, one of       *)
(* another and none of the rest, and the series has two scores.            *)
C10_Witness ==
  /\ ComparisonServed
  /\ Len(YouSeries) = 2
  /\ Cardinality({e \in StoredEntries : e.player_id = request.currentUserId}) = 3
(* The values of a player's entries of a metric on its most recent date.   *)
LatestValues(p, metric) ==
  LET mine == {e \in StoredEntries : e.player_id = p /\ e.metric_type = metric}
      last == Max({e.entry_date : e \in mine})
  IN {e.value : e \in {f \in mine : f.entry_date = last}}

(* C11: at each of the three reductions to a player's latest entry per     *)
(* metric, the value retained for a (player, metric) pair is the value of  *)
(* an entry of that player and metric with the most recent entry_date.     *)
C11_LatestEntryRetained ==
  response.fn = "latest" =>
    /\ \A i \in DOMAIN response.latestEntries :
         response.latestEntries[i].value \in
           LatestValues(response.latestEntries[i].player_id,
                        response.latestEntries[i].metric_type)
    /\ \A i \in DOMAIN response.latestByMetric :
         response.latestByMetric[i].value \in
           LatestValues(request.playerId, response.latestByMetric[i].metric_type)
    /\ \A k \in DOMAIN response.playerLatest :
         \A j \in DOMAIN response.playerLatest[k] :
           response.playerLatest[k][j].val \in
             LatestValues(response.playerLatest[k][j].key, allMetrics[k])

(* C11 witness: a player has entries of one metric on both dates with      *)
(* different values, and each of the three reductions retained a value for *)
(* that player and metric.                                                 *)
C11_Witness ==
  /\ response.fn = "latest"
  /\ \E e, f \in StoredEntries :
       /\ e.player_id = request.playerId /\ f.player_id = request.playerId
       /\ e.metric_type = f.metric_type
       /\ e.entry_date < f.entry_date
       /\ e.value # f.value
       /\ \E i \in DOMAIN response.latestEntries :
            /\ response.latestEntries[i].player_id = e.player_id
            /\ response.latestEntries[i].metric_type = e.metric_type
       /\ \E i \in DOMAIN response.latestByMetric :
            response.latestByMetric[i].metric_type = e.metric_type
       /\ \E k \in DOMAIN allMetrics :
            allMetrics[k] = e.metric_type /\ MapHas(response.playerLatest[k], e.player_id)

(* The (player_id, metric_type, entry_date) key of a row, and the rows a   *)
(* caller of get_best_daily_entries() may see.                             *)
KeyOf(e) == <<e.player_id, e.metric_type, e.entry_date>>

VisibleTo(uid) ==
  {e \in StoredEntries :
     e.player_id = uid \/ has_role(uid, "admin") \/ has_role(uid, "coach")}

OneEntryPerKey(output, input) ==
  /\ {KeyOf(output[i]) : i \in DOMAIN output} = {KeyOf(e) : e \in input}
  /\ \A i, j \in DOMAIN output : KeyOf(output[i]) = KeyOf(output[j]) => i = j

(* C12: the output of the best-entry reducer, allData of a benchmark       *)
(* response and the result of get_best_daily_entries() for any caller, has *)
(* exactly one entry for each key of its input and no two of one key.      *)
C12_OneEntryPerKey ==
  /\ (response.fn = "get-performance-benchmarks" /\ response.status = 200) =>
       OneEntryPerKey(response.allData, StoredEntries)
  /\ \A uid \in {NoUser, "p1", "p2", "coach1"} :
       \A entries \in get_best_daily_entries(uid) : OneEntryPerKey(entries, VisibleTo(uid))

(* C12 witness: two stored rows share a key with different values, rows of *)
(* another key are stored too, and a benchmark response carries allData.   *)
C12_Witness ==
  /\ response.fn = "get-performance-benchmarks"
  /\ response.status = 200
  /\ \E e, f \in StoredEntries : KeyOf(e) = KeyOf(f) /\ e.value # f.value
  /\ Cardinality({KeyOf(e) : e \in StoredEntries}) = 2
  /\ Len(response.allData) = 2

(* A served normalization, the best value its reference data holds for    *)
(* the item's metric, and rounding of the quotient num / den of naturals   *)
(* to the nearest integer, a half rounding up.                             *)
NormalizerServed == response.fn = "normalizeMetrics"

ReferenceValues ==
  {request.allData[i].value :
     i \in {j \in DOMAIN request.allData :
              request.allData[j].metric_type = request.item.metric_type}}

ReferenceBest == BestOf(request.item.metric_type, ReferenceValues)

RoundedQuotient(num, den) == ((2 * num) + den) \div (2 * den)

(* C13: for a timed metric with best value b and raw value v the score is  *)
(* round(100 x clamp01((1.4 b - v) / (1.4 b - b))), that is                *)
(* round(50 (7b - 5v) / b) between 0 and 100; it is 0 at v = 1.4 b and for *)
(* every slower value.                                                     *)
C13_TimedScoreIsRoundedClamp ==
  (/\ NormalizerServed
   /\ request.item.metric_type \in LOWER_IS_BETTER
   /\ ReferenceValues # {}) =>
    LET b == ReferenceBest
        v == request.item.value
    IN response.data[1].value =
         IF 5 * v >= 7 * b THEN 0
         ELSE IF v <= b THEN 100
         ELSE RoundedQuotient(50 * ((7 * b) - (5 * v)), b)

(* C14: for a non-timed metric with best value b and raw value v the score *)
(* is round(100 x clamp01((v - b/d) / (b - b/d))), that is                 *)
(* round(100 (d v - b) / ((d - 1) b)) between 0 and 100, with d = 5 for    *)
(* push-ups and d = 2 for every other non-timed metric.                    *)
C14_UntimedScoreIsRoundedClamp ==
  (/\ NormalizerServed
   /\ request.item.metric_type \notin LOWER_IS_BETTER
   /\ ReferenceValues # {}) =>
    LET b == ReferenceBest
        v == request.item.value
        d == IF request.item.metric_type = "pushups_1min" THEN 5 ELSE 2
    IN response.data[1].value =
         IF d * v <= b THEN 0
         ELSE IF v >= b THEN 100
         ELSE RoundedQuotient(100 * ((d * v) - b), (d - 1) * b)

(* C15: every score of the normalizer is an integer from 0 to 100, also    *)
(* when the reference data holds no value of the metric scored.            *)
C15_ScoreWithinBounds ==
  NormalizerServed =>
    \A i \in DOMAIN response.data :
      response.data[i].value \in 0..100

(* C15 witnesses: a value better than every reference value is scored 100, *)
(* and a reference set without the metric is scored too.                   *)
C15_Witness ==
  /\ NormalizerServed
  /\ ReferenceValues # {}
  /\ request.item.metric_type = "vertical_jump"
  /\ request.item.value > 2 * ReferenceBest
  /\ response.data[1].value = 100

(* The record the handler returns for another player and the same stored  *)
(* rows, read in any order.                                                *)
ResultsFor(player_id) ==
  {neighborhoodResponse(request.caller, player_id, allEntries).results :
     allEntries \in TableRows(performance_entries)}

IsStrictlyBetter(metric, a, b) == IF metric \in LOWER_IS_BETTER THEN a < b ELSE a > b

(* C16: for the same stored entries, when one player's value of a metric   *)
(* is strictly better than another's under the metric's direction, the     *)
(* first player's percentile is not lower than the second's.               *)
C16_PercentileMonotone ==
  NeighborhoodServed =>
    \A other \in Players \ {request.player_id} :
      \A results \in ResultsFor(other) :
        \A i \in DOMAIN results :
          LET mine == response.results[i]
              theirs == results[i]
          IN (mine.current_value # NoNumber /\ theirs.current_value # NoNumber) =>
               /\ IsStrictlyBetter(mine.metric_type, mine.current_value,
                                   theirs.current_value) =>
                    mine.percentile >= theirs.percentile
               /\ IsStrictlyBetter(mine.metric_type, theirs.current_value,
                                   mine.current_value) =>
                    theirs.percentile >= mine.percentile

(* C16 witness: on a timed metric the player is strictly faster than one   *)
(* teammate and strictly slower than another.                              *)
C16_Witness ==
  /\ NeighborhoodServed
  /\ \E i \in DOMAIN response.results :
       LET r == response.results[i]
       IN /\ r.metric_type \in LOWER_IS_BETTER
          /\ r.current_value # NoNumber
          /\ r.percentile = 50
          /\ \E p, q \in Players \ {request.player_id} :
               /\ HasEntry(p, r.metric_type) /\ HasEntry(q, r.metric_type)
               /\ LatestBestDaily(p, r.metric_type) > r.current_value
               /\ LatestBestDaily(q, r.metric_type) < r.current_value

(* C17: for each metric the requested player has no entry for, the record *)
(* of that metric has current_value, percentile and next_best_value null,  *)
(* none of them zero; the record is there whenever the player has an entry *)
(* of some other metric.                                                   *)
C17_MissingMetricIsNull ==
  (response.fn = "get-player-neighborhood" /\ response.status = 200) =>
    \A metric \in MetricType :
      ~HasEntry(request.player_id, metric) =>
        /\ \A i \in DOMAIN response.results :
             response.results[i].metric_type = metric =>
               /\ response.results[i].current_value = NoNumber
               /\ response.results[i].percentile = NoNumber
               /\ response.results[i].next_best_value = NoNumber
        /\ (\E other \in MetricType : HasEntry(request.player_id, other)) =>
             \E i \in DOMAIN response.results : response.results[i].metric_type = metric

(* C17 witness: the player has an entry of one metric and none of another  *)
(* for which a teammate has one, and that metric's record is null.         *)
C17_Witness ==
  /\ NeighborhoodServed
  /\ \E i \in DOMAIN response.results :
       /\ ~HasEntry(request.player_id, response.results[i].metric_type)
       /\ \E p \in Players : HasEntry(p, response.results[i].metric_type)
       /\ response.results[i].current_value = NoNumber
       /\ response.results[i].percentile = NoNumber

(* C18: every stored entry has a positive value, whichever of the entry   *)
(* operations wrote it.                                                    *)
C18_StoredValuesPositive ==
  \A e \in StoredEntries : e.value > 0

(* C18 witness: a batch with an empty field and an accepted one was        *)
(* inserted after an entry was edited, and three rows are stored.          *)
C18_Witness ==
  /\ request.fn = "handleBatchUserSubmit"
  /\ \E i \in DOMAIN request.rows : request.rows[i].input.blank
  /\ BagCardinality(performance_entries) = 3
  /\ \E e \in StoredEntries : e.value = 1000
  /\ \E e \in StoredEntries : e.entry_date = 1 /\ e.value = 1

(* C19: an authenticated benchmark request whose mode is none of best,    *)
(* position, offense, defense is answered with the validation failure      *)
(* alone: status 400 and no benchmark or entry data.                       *)
C19_UnknownModeRejected ==
  (/\ request.fn = "get-performance-benchmarks"
   /\ request.caller # NoUser
   /\ request.body.mode \notin {"best", "position", "offense", "defense"}) =>
    response = [fn |-> "get-performance-benchmarks", status |-> 400]

(* C19 witness: entries are stored, a player has a position, and a request *)
(* with an unknown mode and a valid position was answered.                 *)
C19_Witness ==
  /\ request.fn = "get-performance-benchmarks"
  /\ request.caller # NoUser
  /\ request.body.mode = "compare"
  /\ request.body.position = "QB"
  /\ StoredEntries # {}
  /\ player_positions["p1"] = "QB"
  /\ response.status = 400

(* The responses a call may get when it is served alone against the       *)
(* stored rows.                                                            *)
ServedAlone(call) ==
  IF call.fn = "get-performance-benchmarks"
    THEN {benchmarksResponse(call.caller, call.body, rawData, entries) :
            rawData \in {s \in TableRows(performance_entries) : OrderedByDateDesc(s)},
            entries \in get_best_daily_entries(NoUser)}
    ELSE {neighborhoodResponse(call.caller, call.player_id, allEntries) :
            allEntries \in TableRows(performance_entries)}

ReturnedAsAlone ==
  response.fn = "concurrent" =>
    \A c \in DOMAIN response.inflight :
      response.inflight[c].pc = "done" =>
        response.inflight[c].response \in ServedAlone(request.calls[c])

ServingChangesNothing ==
  (response # NoResponse \/ response' # NoResponse) =>
    UNCHANGED <<performance_entries, player_positions, user_roles, auth_users, profiles>>

(* C20: no step of serving a benchmarks or neighborhood request changes    *)
(* the stored rows, positions or roles, and every response of requests     *)
(* served concurrently is one the request gets when served alone against   *)
(* the same stored rows.                                                   *)
C20_ConcurrentAsAlone == [](ReturnedAsAlone) /\ [][ServingChangesNothing]_vars

(* C20 witness: two neighborhood requests for different players, both with *)
(* entries, have returned after being served concurrently.                 *)
C20_Witness ==
  /\ response.fn = "concurrent"
  /\ \A c \in DOMAIN response.inflight :
       /\ response.inflight[c].pc = "done"
       /\ request.calls[c].fn = "get-player-neighborhood"
       /\ response.inflight[c].response.results # <<>>
  /\ request.calls[1].player_id # request.calls[2].player_id

(* A collection with exactly one entry per (player_id, metric_type,        *)
(* entry_date) key.                                                        *)
AlreadyReduced(data) ==
  \A i, j \in DOMAIN data : KeyOf(data[i]) = KeyOf(data[j]) => i = j

(* C21: the best-entry reducer returns a collection that has exactly one   *)
(* entry per key unchanged: allData of a benchmark response reduces to     *)
(* itself, and so does every read of the stored rows that holds no key     *)
(* twice.                                                                  *)
C21_ReducerIdempotent ==
  /\ (response.fn = "get-performance-benchmarks" /\ response.status = 200) =>
       /\ AlreadyReduced(response.allData)
       /\ bestEntriesMap(response.allData) = response.allData
  /\ \A rawData \in TableRows(performance_entries) :
       AlreadyReduced(rawData) => bestEntriesMap(rawData) = rawData

(* C21 witness: the reducer has dropped a row of a key stored twice, and   *)
(* the response carries rows of two keys.                                  *)
C21_Witness ==
  /\ response.fn = "get-performance-benchmarks"
  /\ response.status = 200
  /\ Len(response.allData) = 2
  /\ BagCardinality(performance_entries) = 3
  /\ response.allData[1].metric_type # response.allData[2].metric_type

(* What a user owns in the store: their performance entries, position,     *)
(* roles, profile and auth account.                                        *)
OwnedBy(s, id) ==
  [performance_entries |-> {e \in DOMAIN s.performance_entries : e.player_id = id},
   position |-> IF id \in DOMAIN s.player_positions
                  THEN s.player_positions[id] ELSE NoPosition,
   roles |-> s.user_roles[id],
   profile |-> id \in s.profiles,
   account |-> id \in DOMAIN s.auth_users]

Nothing ==
  [performance_entries |-> {}, position |-> NoPosition, roles |-> {},
   profile |-> FALSE, account |-> FALSE]

(* C22: when delete-user has answered, with success or with an error,      *)
(* either everything the target user owned has been removed or nothing of  *)
(* it has.                                                                 *)
C22_DeletionIsAtomic ==
  (response.fn = "delete-user" /\ uuid(request.body.userId)) =>
    \/ OwnedBy(stored, request.body.userId) = Nothing
    \/ OwnedBy(stored, request.body.userId) = OwnedBy(request.before, request.body.userId)

(* C23: when create-user has answered with an error, no account that the   *)
(* request created remains.                                                *)
C23_FailedCreateLeavesNoAccount ==
  (response.fn = "create-user" /\ response.status # 200) =>
    DOMAIN auth_users \subseteq DOMAIN request.before.auth_users

(* The caller of the account function in flight held admin when the        *)
(* function checked it: the stored state the function started from is the  *)
(* state its check read.                                                   *)
AccountFunctions == {"create-user", "delete-user", "reset-user-password"}

CallerWasAdmin ==
  /\ request.caller \in DOMAIN request.before.user_roles
  /\ "admin" \in request.before.user_roles[request.caller]

(* C24: create-user, delete-user and reset-user-password change the stored *)
(* state, and go on to any of their calls, only for a caller who held      *)
(* admin at the check; an authenticated caller without admin is answered   *)
(* 403 with the stored state as it was.                                    *)
C24_AdminOnly ==
  request.fn \in AccountFunctions =>
    /\ (stored # request.before \/ request.pc # "done" \/ response = NoResponse) =>
         CallerWasAdmin
    /\ (request.caller # NoUser /\ ~CallerWasAdmin) =>
         (response.fn = request.fn /\ response.status = 403 /\ stored = request.before)

(* C24 witness: the coach has asked for the deletion of p1 and has been    *)
(* answered 403, p1 still holding everything.                              *)
C24_Witness ==
  /\ request.fn = "delete-user"
  /\ request.caller = "coach1"
  /\ request.body.userId = "p1"
  /\ response.fn = "delete-user"
  /\ response.status = 403
  /\ "p1" \in DOMAIN auth_users

(* The role update in flight or just finished: the roles the edited user   *)
(* held when it started (old) and the roles selected in the dialog (new).  *)
RoleUpdate == request.fn = "handleUpdateUser" /\ request.selectedRoles # {}

OldRoles == request.before.user_roles[request.editingUser]

RolesKept ==
  /\ user_roles[request.editingUser] # {}
  /\ (OldRoles \cap request.selectedRoles) \subseteq user_roles[request.editingUser]

C26_FifthOfTenIsFifty ==
  (/\ response.fn = "percentile"
   /\ request.totalPlayers = 10
   /\ request.playersStrictlyWorseCount = 5) =>
    /\ response.percentile = 50
    /\ response.percentile =
         RoundedQuotient(100 * request.playersStrictlyWorseCount, request.totalPlayers)

(* Two stored rows of one key, low with the lower value, and what each     *)
(* component makes of them: whether it takes low for the better one.       *)
ReducerPrefers(low, high) == bestEntriesMap(<<high, low>>) = <<low>>

SqlPrefers(low, high) == sqlRankKey(low) < sqlRankKey(high)

NormalizerPrefers(low, high) ==
  MapGet(bestValues(<<high, low>>, 1, <<>>), low.metric_type) = low.value

NeighborhoodPrefers(low, high) ==
  compareEntries(low, high, low.metric_type \in timeBasedMetrics) < 0

(* C27: the best-entry reducer of get-performance-benchmarks, the SQL      *)
(* function get_best_daily_entries, the normalizer and                     *)
(* get-player-neighborhood take the same side, lower or higher, for the    *)
(* better one on the metric of any two stored rows of one key.             *)
C27_SameDirectionEverywhere ==
  \A low, high \in StoredEntries :
    (KeyOf(low) = KeyOf(high) /\ low.value < high.value) =>
      /\ ReducerPrefers(low, high) = NormalizerPrefers(low, high)
      /\ SqlPrefers(low, high) = NormalizerPrefers(low, high)
      /\ NeighborhoodPrefers(low, high) = NormalizerPrefers(low, high)

(* Every call of fetchComparisonData that the mounted hook started has     *)
(* resolved, and what a call started now for the latest props could        *)
(* resolve to.                                                             *)
AllFetchesDone ==
  mounted /\ \A c \in DOMAIN request.fetches : request.fetches[c].pc = "done"

ResultsForLatestProps ==
  {comparisonData(request.props.mode, request.props.selectedPosition,
                  fetchLatestPlayerMetrics(bestEntries, request.props.currentUserId),
                  benchmarksResponse(request.viewer, benchmarkBody(request.props),
                                     rawData, entries)) :
     bestEntries \in get_best_daily_entries(request.viewer),
     rawData \in {s \in TableRows(performance_entries) : OrderedByDateDesc(s)},
     entries \in get_best_daily_entries(NoUser)}

(* C28: once every started fetch has resolved, the data the hook exposes   *)
(* is the result for the most recently selected props (when that result is *)
(* data and not an error).                                                 *)
C28_LatestSelectionWins ==
  AllFetchesDone =>
    \E result \in ResultsForLatestProps :
      result.error = NoValue => response.data = result.data

(* C29: a neighborhood response carries a current_value and a percentile   *)
(* of the requested player only when the caller is that player or holds    *)
(* the coach or admin role.                                                *)
C29_OnlySelfOrStaff ==
  (/\ response.fn = "get-player-neighborhood"
   /\ response.status = 200
   /\ \E i \in DOMAIN response.results :
        /\ response.results[i].current_value # NoNumber
        /\ response.results[i].percentile # NoNumber) =>
    \/ request.caller = request.player_id
    \/ has_role(request.caller, "coach")
    \/ has_role(request.caller, "admin")

(* The get-performance-benchmarks responses of the calls that returned.    *)
BenchmarkResponses ==
  IF response = NoResponse \/ response.fn # "concurrent" THEN {}
  ELSE {response.inflight[c].response :
          c \in {d \in DOMAIN response.inflight :
                   /\ response.inflight[d].pc = "done"
                   /\ response.inflight[d].response.fn = "get-performance-benchmarks"
                   /\ response.inflight[d].response.status = 200}}

(* C30: every benchmark value of a response, for a metric, is the value of *)
(* some entry of that metric in the allData of the same response, whatever *)
(* is inserted, edited or deleted while the request is served.             *)
C30_BenchmarksAmongAllData ==
  \A res \in BenchmarkResponses :
    \A i \in DOMAIN res.benchmarks :
      \E k \in DOMAIN res.allData :
        /\ res.allData[k].metric_type = res.benchmarks[i].metric_type
        /\ res.allData[k].value = res.benchmarks[i].value

(* C30: the case of the claim.  No response carries a benchmark, so the    *)
(* property above has no instance in any reachable state.                  *)
C30_NoBenchmarkIsReturned ==
  \A res \in BenchmarkResponses : res.benchmarks = <<>>

(* C30: a response whose allData was read before the entries changed.      *)
C30_EntriesChangedWhileServed ==
  \E res \in BenchmarkResponses :
    /\ res.allData # <<>>
    /\ performance_entries = EmptyBag

====
